---- MODULE Spec2Model ----
\* Decision and workflow layer of the trade-up API (apps/api): opportunity
\* intake, the offer approval state machine and the portfolio-position
\* lifecycle with its verification checklist, over the tables of the storage
\* repository and the append-only audit log.
\*
\* Every request handler is one action.  A handler runs its repository calls
\* in program order; each state-changing call may throw (a rejected
\* pool.query), which ends the handler there with a 500 and keeps whatever the
\* earlier calls persisted.  The input "fault" of an action names the call
\* that throws, "none" when all succeed.
EXTENDS Integers, Sequences, FiniteSets, TLC

\* ---------------------------------------------------------------- bounds
\* clients the pool connects at most
MaxClients == 2
MaxOpportunities == 2
MaxOffers == 1
MaxPositions == 1
MaxChecklists == 1
MaxFaults == 1
MaxPolicyEvents == 3
MaxTasks == 2
MaxTaskEvents == 3
MaxEvidence == 2

\* ------------------------------------------------------------ JS values
\* A request field is a typed JS value; "undefined" stands for a field that
\* is absent or of another type than the handler asks for.
JsString(s) == [type |-> "string", value |-> s]
JsNumber(n) == [type |-> "number", value |-> n, finite |-> TRUE]

\* the number Infinity (JSON.parse of a literal such as 1e999)
Infinity == [type |-> "number", value |-> 1, finite |-> FALSE]
JsBoolean(b) == [type |-> "boolean", value |-> b]
UndefinedText == [type |-> "undefined", value |-> <<>>]
UndefinedNumber == [type |-> "undefined", value |-> 0, finite |-> FALSE]

\* Number.isFinite
isFinite(number) == number.type = "number" /\ number.finite
UndefinedBoolean == [type |-> "undefined", value |-> FALSE]

\* SQL NULL / a JS undefined property of a stored record
NULL == "NULL"

\* value IS NULL of SQL, for a value of any type
isNull(value) == ToString(value) = ToString(NULL)

\* COALESCE(a, b) of SQL
COALESCE(a, b) == IF isNull(a) THEN b ELSE a

\* ------------------------------------------------------------ text
\* Text is a sequence of one-character strings.
toLowerChar(c) ==
    CASE c = "A" -> "a"
      [] c = "B" -> "b"
      [] c = "T" -> "t"
      [] OTHER -> c

toLowerCase(s) == [i \in 1..Len(s) |-> toLowerChar(s[i])]

RECURSIVE trimStart(_)
trimStart(s) ==
    IF s # <<>> /\ Head(s) = " " THEN trimStart(Tail(s)) ELSE s

RECURSIVE trimEnd(_)
trimEnd(s) ==
    IF s # <<>> /\ s[Len(s)] = " " THEN trimEnd(SubSeq(s, 1, Len(s) - 1)) ELSE s

trim(s) == trimEnd(trimStart(s))

\* s.replace(/\s+/g, " "): every maximal run of whitespace becomes one space
RECURSIVE collapseWhitespace(_)
collapseWhitespace(s) ==
    IF s = <<>> THEN <<>>
    ELSE IF Head(s) = " "
         THEN <<" ">> \o collapseWhitespace(trimStart(s))
         ELSE <<Head(s)>> \o collapseWhitespace(Tail(s))

normalizeText(value) == collapseWhitespace(toLowerCase(trim(value)))

\* Decimal digits of a natural number
RECURSIVE digits(_)
digits(n) ==
    IF n < 10 THEN <<ToString(n)>> ELSE digits(n \div 10) \o <<ToString(n % 10)>>

\* Prices are held in mills (thousandths of a dollar).  Number(p.toFixed(2)):
\* the price rounded to cents, here held as a number of cents.
roundToCents(mills) == (mills + 5) \div 10

\* cents.toFixed(2): the fixed two-decimal rendering of a price in cents
toFixed2(cents) ==
    digits(cents \div 100) \o <<".">> \o <<ToString((cents % 100) \div 10)>>
        \o <<ToString(cents % 10)>>

\* sha256 hex digest, taken as injective: the digest of a text is the text
hashApiKey(text) == text

\* ------------------------------------------------------------ users
\* The users table (seeded; no route changes it) and the API keys a request
\* may carry.
Users ==
    { [id |-> 1, role |-> "admin", apiKeyHash |-> hashApiKey("admin-key")],
      [id |-> 2, role |-> "operator", apiKeyHash |-> hashApiKey("operator-key")],
      [id |-> 3, role |-> "reviewer", apiKeyHash |-> hashApiKey("reviewer-key")] }

NoApiKey == ""

ApiKeys == {"admin-key", "operator-key", "reviewer-key", "unknown-key", NoApiKey}

findUserByApiKeyHash(apiKeyHash) == {u \in Users : u.apiKeyHash = apiKeyHash}

NoError == <<>>

Reply(statusCode, error) == [statusCode |-> statusCode, error |-> error]

\* no reply sent (yet)
NoReply == Reply(0, NoError)

\* the reply of fastify's default error handler to a handler that threw
InternalError == Reply(500, <<"Internal Server Error">>)

\* requireRole letting every known user through
requireRole_AnyUser(allowedRoles, apiKey) ==
    IF apiKey = NoApiKey THEN Reply(401, <<"Missing x-api-key header">>)
    ELSE IF findUserByApiKeyHash(hashApiKey(apiKey)) = {}
         THEN Reply(401, <<"Invalid API key">>)
    ELSE NoReply

\* The preHandler requireRole(allowedRoles): the reply it sends, or NoReply
\* when it lets the request through with request.authUser set.
requireRole(allowedRoles, apiKey) ==
    IF apiKey = NoApiKey THEN Reply(401, <<"Missing x-api-key header">>)
    ELSE IF findUserByApiKeyHash(hashApiKey(apiKey)) = {}
         THEN Reply(401, <<"Invalid API key">>)
    ELSE IF \A u \in findUserByApiKeyHash(hashApiKey(apiKey)) : u.role \notin allowedRoles
         THEN Reply(403, <<"Insufficient role">>)
    ELSE NoReply

\* request.authUser after requireRole let the request through
authUser(apiKey) == CHOOSE u \in Users : u.apiKeyHash = hashApiKey(apiKey)

\* ------------------------------------------------------------ state
VARIABLES
    opportunities,  \* table opportunities, row i has id i
    offers,         \* table offers, row i has id i
    items,          \* table items
    positions,      \* table portfolio_positions
    checklists,     \* table portfolio_verification_checklists, oldest first
    events,         \* table events (the audit log), oldest first
    response,       \* the reply to the request being handled, NoReply between requests
    faults,         \* how many writeEvent calls have thrown so far
    policyRules,    \* table policy_rules, one row per (platform, action)
    tasks,          \* table tasks, row i has id i
    evidence,       \* table evidence, row i has id i
    valuations,     \* table valuations, row i has id i
    call,           \* a call of a pure function: its input, and its result once done
    requests,       \* the requests handled concurrently, each with its position
    pool            \* the connection pool: its clients and which of them are idle

vars == <<opportunities, offers, items, positions, checklists, events, response, faults,
          policyRules, tasks, evidence, valuations, call, requests, pool>>

\* new Pool(...): no client connected yet
NoPool == [clients |-> <<>>, idle |-> <<>>]

\* no call of a pure function
NoCall == [input |-> <<>>, result |-> <<>>, done |-> FALSE]

\* The repository call of a handler that throws: none, the call that writes
\* the handler's table ("write"), or the writeEvent after it ("audit").
Faults == {"none", "write", "audit"}

\* A write that throws leaves no trace; a writeEvent that throws leaves a
\* write without its event, and a run has at most MaxFaults of them.
MayThrow(fault) == fault = "audit" => faults < MaxFaults

\* A request is taken when the reply to the one before has been sent.
Accept == response = NoReply

\* The reply leaves; the next request can be taken.
ReplySent ==
    /\ response # NoReply
    /\ response' = NoReply
    /\ UNCHANGED <<opportunities, offers, items, positions, checklists, events, faults,
                   policyRules, tasks, evidence, valuations, call, requests, pool>>

\* AuthRepository.writeEvent
writeEvent(event) == events' = Append(events, event)

Init ==
    /\ opportunities = <<>>
    /\ offers = <<>>
    /\ items = <<>>
    /\ positions = <<>>
    /\ checklists = <<>>
    /\ events = <<>>
    /\ response = NoReply
    /\ faults = 0
    /\ policyRules = {}
    /\ tasks = <<>>
    /\ evidence = <<>>
    /\ valuations = <<>>
    /\ requests = <<>>
    /\ pool = NoPool
    /\ call = NoCall

\* ------------------------------------------------------------ intake
\* parseOpportunityInput: the normalized fields
parsedSource(body) ==
    IF body.source.type = "string" THEN normalizeText(body.source.value) ELSE <<>>

parsedCategory(body) ==
    IF body.category.type = "string" THEN normalizeText(body.category.value) ELSE <<>>

parsedLocation(body) ==
    IF body.location.type = "string" THEN normalizeText(body.location.value) ELSE <<>>

parsedTitle(body) ==
    IF body.title.type = "string" /\ Len(trim(body.title.value)) > 0
    THEN trim(body.title.value)
    ELSE <<"u", "n", "t", "i", "t", "l", "e", "d">>

\* A slip in the validation: the price is not asked to be finite.
opportunityInputValid_AnyNumber(body) ==
    /\ parsedSource(body) # <<>>
    /\ parsedCategory(body) # <<>>
    /\ parsedLocation(body) # <<>>
    /\ body.priceUsd.type = "number"
    /\ body.priceUsd.value > 0

\* parseOpportunityInput: valid
opportunityInputValid(body) ==
    /\ parsedSource(body) # <<>>
    /\ parsedCategory(body) # <<>>
    /\ parsedLocation(body) # <<>>
    /\ body.priceUsd.type = "number"
    /\ isFinite(body.priceUsd)
    /\ body.priceUsd.value > 0

\* parseOpportunityInput: the value of a valid input
parseOpportunityInput(body) ==
    LET source == parsedSource(body)
        category == parsedCategory(body)
        location == parsedLocation(body)
        title == parsedTitle(body)
        roundedPrice == roundToCents(body.priceUsd.value)
    IN  [ source |-> source,
          category |-> category,
          location |-> location,
          title |-> title,
          askValueUsd |-> roundedPrice,
          dedupeKey |-> hashApiKey(source \o <<"|">> \o category \o <<"|">>
                           \o location \o <<"|">> \o toLowerCase(title) \o <<"|">>
                           \o toFixed2(roundedPrice)),
          normalizedPayload |-> [ source |-> source, category |-> category,
                                  location |-> location, title |-> title,
                                  priceUsd |-> roundedPrice,
                                  normalizationVersion |-> 1 ] ]

\* an intake body
IntakeBody(source, category, location, title, priceUsd) ==
    [ source |-> source, category |-> category, location |-> location,
      title |-> title, priceUsd |-> priceUsd ]

\* The intake bodies requests are drawn from (prices in mills).  Valid ones:
\* a listing; the same listing in other spelling and with a price that
\* rounds to the same cents; listings that differ from it in one field
\* only; a listing without title; two listings with the separator of the
\* fingerprint inside a field.  Invalid ones: a field empty after
\* normalization or missing, a price that is zero, negative, missing or not
\* finite.
IntakeBodies ==
    { IntakeBody(JsString(<<"A">>), JsString(<<"b">>), JsString(<<"a">>),
                 JsString(<<"T">>), JsNumber(1000)),
      IntakeBody(JsString(<<" ", "a", " ">>), JsString(<<"B">>), JsString(<<"a">>),
                 JsString(<<"t", " ">>), JsNumber(1004)),
      IntakeBody(JsString(<<"b">>), JsString(<<"b">>), JsString(<<"a">>),
                 JsString(<<"T">>), JsNumber(1000)),
      IntakeBody(JsString(<<"a">>), JsString(<<"a">>), JsString(<<"a">>),
                 JsString(<<"T">>), JsNumber(1000)),
      IntakeBody(JsString(<<"a">>), JsString(<<"b">>), JsString(<<"b">>),
                 JsString(<<"T">>), JsNumber(1000)),
      IntakeBody(JsString(<<"a">>), JsString(<<"b">>), JsString(<<"a">>),
                 JsString(<<"b">>), JsNumber(1000)),
      IntakeBody(JsString(<<"a">>), JsString(<<"b">>), JsString(<<"a">>),
                 JsString(<<"T">>), JsNumber(1005)),
      IntakeBody(JsString(<<"a", " ", " ", "b">>), JsString(<<"b">>), JsString(<<"a">>),
                 UndefinedText, JsNumber(2000)),
      IntakeBody(JsString(<<"a", "|", "b">>), JsString(<<"b">>), JsString(<<"a">>),
                 JsString(<<"T">>), JsNumber(1000)),
      IntakeBody(JsString(<<"a">>), JsString(<<"b", "|", "b">>), JsString(<<"a">>),
                 JsString(<<"T">>), JsNumber(1000)),
      IntakeBody(JsString(<<" ">>), JsString(<<"b">>), JsString(<<"a">>),
                 JsString(<<"T">>), JsNumber(1000)),
      IntakeBody(JsString(<<"a">>), UndefinedText, JsString(<<"a">>),
                 JsString(<<"T">>), JsNumber(1000)),
      IntakeBody(JsString(<<"a">>), JsString(<<"b">>), UndefinedText,
                 JsString(<<"T">>), JsNumber(1000)),
      IntakeBody(JsString(<<"a">>), JsString(<<"b">>), JsString(<<"a">>),
                 JsString(<<"T">>), JsNumber(0)),
      IntakeBody(JsString(<<"a">>), JsString(<<"b">>), JsString(<<"a">>),
                 JsString(<<"T">>), JsNumber(-1000)),
      IntakeBody(JsString(<<"a">>), JsString(<<"b">>), JsString(<<"a">>),
                 JsString(<<"T">>), UndefinedNumber),
      IntakeBody(JsString(<<"a">>), JsString(<<"b">>), JsString(<<"a">>),
                 JsString(<<"T">>), Infinity) }

\* The intake bodies the offer workflow is checked with: one valid listing
\* and one the parser rejects.
OfferIntakeBodies ==
    { [source |-> JsString(<<"A">>), category |-> JsString(<<"b">>),
       location |-> JsString(<<"a">>), title |-> JsString(<<"T">>),
       priceUsd |-> JsNumber(1000)],
      [source |-> JsString(<<" ">>), category |-> JsString(<<"b">>),
       location |-> JsString(<<"a">>), title |-> JsString(<<"T">>),
       priceUsd |-> JsNumber(1000)] }

\* A slip in the lookup: it also asks for a status that no stored row has
\* (rows are inserted as sourcing).
findOpportunityByDedupeKey_OpenOnly(dedupeKey) ==
    {i \in 1..Len(opportunities) :
        opportunities[i].dedupeKey = dedupeKey /\ opportunities[i].status = "open"}

\* AuthRepository.findOpportunityByDedupeKey: the ids of the matching rows
findOpportunityByDedupeKey(dedupeKey) ==
    {i \in 1..Len(opportunities) : opportunities[i].dedupeKey = dedupeKey}

\* AuthRepository.createOpportunity: the inserted row
createOpportunity(input) ==
    [ status |-> "sourcing",
      source |-> input.source,
      category |-> input.category,
      location |-> input.location,
      title |-> input.title,
      askValueUsd |-> input.askValueUsd,
      normalizedPayload |-> input.normalizedPayload,
      dedupeKey |-> input.dedupeKey ]

\* POST /opportunities
PostOpportunities(apiKey, body) ==
    /\ Accept
    /\ UNCHANGED <<offers, items, positions, checklists, policyRules, tasks, evidence,
                   valuations, call, requests, pool>>
    /\ IF requireRole({"admin", "operator"}, apiKey) # NoReply
       THEN /\ response' = requireRole({"admin", "operator"}, apiKey)
            /\ UNCHANGED <<opportunities, events, faults>>
       ELSE IF ~opportunityInputValid(body)
       THEN /\ response' = Reply(400, <<"source, category, location, and positive priceUsd are required">>)
            /\ UNCHANGED <<opportunities, events, faults>>
       ELSE IF findOpportunityByDedupeKey(parseOpportunityInput(body).dedupeKey) # {}
       THEN /\ response' = Reply(409, <<"Duplicate opportunity",
                   ToString(CHOOSE i \in findOpportunityByDedupeKey(
                                parseOpportunityInput(body).dedupeKey) : TRUE)>>)
            /\ UNCHANGED <<opportunities, events, faults>>
       ELSE \E fault \in Faults :
            /\ MayThrow(fault)
            /\ Len(opportunities) < MaxOpportunities
            /\ IF fault = "write"
               THEN /\ response' = InternalError
                    /\ UNCHANGED <<opportunities, events, faults>>
               ELSE /\ opportunities' =
                        Append(opportunities, createOpportunity(parseOpportunityInput(body)))
                    /\ IF fault = "audit"
                       THEN /\ response' = InternalError
                            /\ faults' = faults + 1
                            /\ UNCHANGED events
                       ELSE /\ writeEvent(
                                 [ eventType |-> "opportunity.created",
                                   entityType |-> "opportunity",
                                   entityId |-> ToString(Len(opportunities) + 1),
                                   payload |->
                                     [ actorUserId |-> authUser(apiKey).id,
                                       role |-> authUser(apiKey).role,
                                       source |-> parseOpportunityInput(body).source,
                                       category |-> parseOpportunityInput(body).category ] ])
                            /\ response' = Reply(201, NoError)
                            /\ UNCHANGED faults

IntakeNext ==
    \/ ReplySent
    \/ \E apiKey \in ApiKeys, body \in IntakeBodies : PostOpportunities(apiKey, body)

\* Opportunity intake, requests handled one at a time.
IntakeSpec == Init /\ [][IntakeNext]_vars

\* ------------------------------------------------------------ offers
OfferStatuses == {"draft", "approved", "rejected", "sent"}

\* Plausible slips in the table: a rejected offer can be approved again; a
\* draft can be sent without approval; a sent offer can still be rejected.
allowedOfferTransitions_RejectedReopens(from) ==
    CASE from = "draft" -> {"approved", "rejected"}
      [] from = "approved" -> {"sent", "rejected"}
      [] from = "rejected" -> {"approved"}
      [] from = "sent" -> {}

allowedOfferTransitions_DraftSends(from) ==
    CASE from = "draft" -> {"approved", "rejected", "sent"}
      [] from = "approved" -> {"sent", "rejected"}
      [] from = "rejected" -> {}
      [] from = "sent" -> {}

allowedOfferTransitions_SentRejects(from) ==
    CASE from = "draft" -> {"approved", "rejected"}
      [] from = "approved" -> {"sent", "rejected"}
      [] from = "rejected" -> {}
      [] from = "sent" -> {"rejected"}

\* allowedOfferTransitions[from]: the statuses an offer may move to
allowedOfferTransitions(from) ==
    CASE from = "draft" -> {"approved", "rejected"}
      [] from = "approved" -> {"sent", "rejected"}
      [] from = "rejected" -> {}
      [] from = "sent" -> {}

\* parsePositiveId: a route parameter is an id when it is a positive integer
parsePositiveId(rawValue) == rawValue > 0

\* the ids a route parameter is drawn from: 0 stands for every rawValue that
\* is no positive integer
OfferIdParams == 0..(MaxOffers + 1)

OpportunityIdParams ==
    {JsNumber(n) : n \in 0..(MaxOpportunities + 1)} \cup {UndefinedNumber}

\* offer terms are opaque to the workflow
OfferTermsParams == {"{requestedItem,cashDeltaUsd}", "undefined"}

\* AuthRepository.getOpportunityById
getOpportunityById(id) == {i \in 1..Len(opportunities) : i = id}

\* AuthRepository.getOfferById
getOfferById(offerId) == {i \in 1..Len(offers) : i = offerId}

\* AuthRepository.createOfferDraft: the inserted row
createOfferDraft(opportunityId, offerTerms) ==
    [ opportunityId |-> opportunityId,
      offerTerms |-> offerTerms,
      status |-> "draft",
      sentByHumanId |-> NULL ]

\* AuthRepository.updateOfferStatus: the updated row
updateOfferStatus(offer, status, sentByHumanId) ==
    [ offer EXCEPT !.status = status,
                   !.sentByHumanId = COALESCE(sentByHumanId, offer.sentByHumanId) ]

\* POST /offers/draft
PostOffersDraft(apiKey, opportunityId, offerTerms) ==
    /\ Accept
    /\ UNCHANGED <<opportunities, items, positions, checklists, policyRules, tasks, evidence,
                   valuations, call, requests, pool>>
    /\ IF requireRole({"admin", "operator"}, apiKey) # NoReply
       THEN /\ response' = requireRole({"admin", "operator"}, apiKey)
            /\ UNCHANGED <<offers, events, faults>>
       ELSE IF \/ opportunityId.type # "number"
               \/ opportunityId.value <= 0
               \/ offerTerms = "undefined"
       THEN /\ response' = Reply(400, <<"opportunityId and offerTerms are required">>)
            /\ UNCHANGED <<offers, events, faults>>
       ELSE IF getOpportunityById(opportunityId.value) = {}
       THEN /\ response' = Reply(404, <<"Opportunity not found">>)
            /\ UNCHANGED <<offers, events, faults>>
       ELSE \E fault \in Faults :
            /\ MayThrow(fault)
            /\ Len(offers) < MaxOffers
            /\ IF fault = "write"
               THEN /\ response' = InternalError
                    /\ UNCHANGED <<offers, events, faults>>
               ELSE /\ offers' = Append(offers,
                                    createOfferDraft(opportunityId.value, offerTerms))
                    /\ IF fault = "audit"
                       THEN /\ response' = InternalError
                            /\ faults' = faults + 1
                            /\ UNCHANGED events
                       ELSE /\ writeEvent(
                                 [ eventType |-> "offer.created",
                                   entityType |-> "offer",
                                   entityId |-> ToString(Len(offers) + 1),
                                   payload |-> [ actorUserId |-> authUser(apiKey).id,
                                                 status |-> "draft" ] ])
                            /\ response' = Reply(201, NoError)
                            /\ UNCHANGED faults

\* A plausible slip: the acting user is stamped on every transition.
sentByHumanIdArgument_Always(targetStatus, actorUserId) == ToString(actorUserId)

\* changeOfferStatus: the sentByHumanId it hands to updateOfferStatus,
\* String(actorUserId) for the sent transition and undefined otherwise
sentByHumanIdArgument(targetStatus, actorUserId) ==
    IF targetStatus = "sent" THEN ToString(actorUserId) ELSE NULL

\* changeOfferStatus(offerId, targetStatus, actorUserId)
changeOfferStatus(offerId, targetStatus, actorUserId) ==
    IF getOfferById(offerId) = {}
    THEN /\ response' = Reply(404, <<"Offer not found">>)
         /\ UNCHANGED <<offers, events, faults>>
    ELSE IF targetStatus \notin allowedOfferTransitions(offers[offerId].status)
    THEN /\ response' = Reply(409, <<"Invalid transition from", offers[offerId].status,
                                     "to", targetStatus>>)
         /\ UNCHANGED <<offers, events, faults>>
    ELSE \E fault \in Faults :
         /\ MayThrow(fault)
         /\ IF fault = "write"
            THEN /\ response' = InternalError
                 /\ UNCHANGED <<offers, events, faults>>
            ELSE /\ offers' = [offers EXCEPT ![offerId] =
                                  updateOfferStatus(offers[offerId], targetStatus,
                                      sentByHumanIdArgument(targetStatus, actorUserId))]
                 /\ IF fault = "audit"
                    THEN /\ response' = InternalError
                         /\ faults' = faults + 1
                         /\ UNCHANGED events
                    ELSE /\ writeEvent(
                              [ eventType |-> "offer.status_changed",
                                entityType |-> "offer",
                                entityId |-> ToString(offerId),
                                payload |-> [ from |-> offers[offerId].status,
                                              to |-> targetStatus,
                                              actorUserId |-> actorUserId ] ])
                         /\ response' = Reply(200, NoError)
                         /\ UNCHANGED faults

\* The routes POST /offers/:offerId/approve, /reject and /send
OfferRoute(allowedRoles, targetStatus, apiKey, offerId) ==
    /\ Accept
    /\ UNCHANGED <<opportunities, items, positions, checklists, policyRules, tasks, evidence,
                   valuations, call, requests, pool>>
    /\ IF requireRole(allowedRoles, apiKey) # NoReply
       THEN /\ response' = requireRole(allowedRoles, apiKey)
            /\ UNCHANGED <<offers, events, faults>>
       ELSE IF ~parsePositiveId(offerId)
       THEN /\ response' = Reply(400, <<"Invalid offerId">>)
            /\ UNCHANGED <<offers, events, faults>>
       ELSE changeOfferStatus(offerId, targetStatus, authUser(apiKey).id)

\* POST /offers/:offerId/approve
PostOffersApprove(apiKey, offerId) ==
    OfferRoute({"admin", "reviewer"}, "approved", apiKey, offerId)

\* POST /offers/:offerId/reject
PostOffersReject(apiKey, offerId) ==
    OfferRoute({"admin", "reviewer"}, "rejected", apiKey, offerId)

\* POST /offers/:offerId/send
PostOffersSend(apiKey, offerId) ==
    OfferRoute({"admin", "operator"}, "sent", apiKey, offerId)

OfferNext ==
    \/ ReplySent
    \/ \E apiKey \in ApiKeys, body \in OfferIntakeBodies :
           PostOpportunities(apiKey, body)
    \/ \E apiKey \in ApiKeys, opportunityId \in OpportunityIdParams,
          offerTerms \in OfferTermsParams :
           PostOffersDraft(apiKey, opportunityId, offerTerms)
    \/ \E apiKey \in ApiKeys, offerId \in OfferIdParams :
           PostOffersApprove(apiKey, offerId)
    \/ \E apiKey \in ApiKeys, offerId \in OfferIdParams :
           PostOffersReject(apiKey, offerId)
    \/ \E apiKey \in ApiKeys, offerId \in OfferIdParams :
           PostOffersSend(apiKey, offerId)

\* The offer workflow: intake and the offer routes, requests handled one at a
\* time.
OfferSpec == Init /\ [][OfferNext]_vars

\* ------------------------------------------------------------ offer race
\* Two requests for a transition of the same offer handled concurrently:
\* changeOfferStatus awaits getOfferById, updateOfferStatus and writeEvent,
\* and the other request runs between any two of them.  A request is
\* [targetStatus, actorUserId, offerId, pc, existing, response], pc the call
\* it awaits next.

\* a transition request that has passed requireRole and parsePositiveId
OfferRequest(targetStatus, apiKey, offerId) ==
    [ targetStatus |-> targetStatus, actorUserId |-> authUser(apiKey).id,
      offerId |-> offerId, pc |-> "getOfferById", existing |-> NULL,
      response |-> NoReply ]

\* the key a transition is requested with
OfferRequestKey(targetStatus) ==
    IF targetStatus = "sent" THEN "operator-key" ELSE "reviewer-key"

\* two transition requests for offer 1 arrive together
OfferRequestsArrive(first, second) ==
    /\ Accept
    /\ requests = <<>>
    /\ offers # <<>>
    /\ requests' = << OfferRequest(first, OfferRequestKey(first), 1),
                      OfferRequest(second, OfferRequestKey(second), 1) >>
    /\ UNCHANGED <<opportunities, offers, items, positions, checklists, events, response,
                   faults, policyRules, tasks, evidence, valuations, call,
                   pool>>

\* a request answers
Answer(r, reply) ==
    requests' = [requests EXCEPT ![r].pc = "done", ![r].response = reply]

\* changeOfferStatus: getOfferById and the check of the transition table
changeOfferStatusGet(r) ==
    /\ r \in DOMAIN requests
    /\ requests[r].pc = "getOfferById"
    /\ IF getOfferById(requests[r].offerId) = {}
       THEN Answer(r, Reply(404, <<"Offer not found">>))
       ELSE IF requests[r].targetStatus
                  \notin allowedOfferTransitions(offers[requests[r].offerId].status)
       THEN Answer(r, Reply(409, <<"Invalid transition from",
                                   offers[requests[r].offerId].status,
                                   "to", requests[r].targetStatus>>))
       ELSE requests' = [requests EXCEPT
                           ![r].pc = "updateOfferStatus",
                           ![r].existing = offers[requests[r].offerId].status]
    /\ UNCHANGED <<opportunities, offers, items, positions, checklists, events, response,
                   faults, policyRules, tasks, evidence, valuations, call,
                   pool>>

\* changeOfferStatus: updateOfferStatus, UPDATE offers SET status WHERE id
changeOfferStatusUpdate(r) ==
    /\ r \in DOMAIN requests
    /\ requests[r].pc = "updateOfferStatus"
    /\ \E fault \in {"none", "write"} :
           IF fault = "write"
           THEN /\ Answer(r, InternalError)
                /\ UNCHANGED offers
           ELSE /\ offers' = [offers EXCEPT ![requests[r].offerId] =
                                 updateOfferStatus(offers[requests[r].offerId],
                                     requests[r].targetStatus,
                                     sentByHumanIdArgument(requests[r].targetStatus,
                                                           requests[r].actorUserId))]
                /\ requests' = [requests EXCEPT ![r].pc = "writeEvent"]
    /\ UNCHANGED <<opportunities, items, positions, checklists, events, response,
                   faults, policyRules, tasks, evidence, valuations, call,
                   pool>>

\* changeOfferStatus: writeEvent and the reply
changeOfferStatusEvent(r) ==
    /\ r \in DOMAIN requests
    /\ requests[r].pc = "writeEvent"
    /\ \E fault \in {"none", "audit"} :
           /\ MayThrow(fault)
           /\ IF fault = "audit"
              THEN /\ Answer(r, InternalError)
                   /\ faults' = faults + 1
                   /\ UNCHANGED events
              ELSE /\ writeEvent(
                        [ eventType |-> "offer.status_changed",
                          entityType |-> "offer",
                          entityId |-> ToString(requests[r].offerId),
                          payload |-> [ from |-> requests[r].existing,
                                        to |-> requests[r].targetStatus,
                                        actorUserId |-> requests[r].actorUserId ] ])
                   /\ Answer(r, Reply(200, NoError))
                   /\ UNCHANGED faults
    /\ UNCHANGED <<opportunities, offers, items, positions, checklists, response,
                   policyRules, tasks, evidence, valuations, call,
                   pool>>

OfferRaceNext ==
    \/ /\ requests = <<>>
       /\ \/ ReplySent
          \/ \E body \in OfferIntakeBodies : PostOpportunities("operator-key", body)
          \/ \E opportunityId \in OpportunityIdParams, offerTerms \in OfferTermsParams :
                 PostOffersDraft("operator-key", opportunityId, offerTerms)
          \/ PostOffersApprove("reviewer-key", 1)
    \/ \E first, second \in {"approved", "rejected", "sent"} :
           OfferRequestsArrive(first, second)
    \/ \E r \in {1, 2} :
           \/ changeOfferStatusGet(r)
           \/ changeOfferStatusUpdate(r)
           \/ changeOfferStatusEvent(r)

\* An offer is drafted and perhaps approved, then two transition requests for
\* it are handled concurrently.
OfferRaceSpec == Init /\ [][OfferRaceNext]_vars

\* ------------------------------------------------------------ intake race
\* Two intake requests handled concurrently: the handler awaits
\* findOpportunityByDedupeKey, createOpportunity and writeEvent, and the
\* other request runs between any two of them.  A request is
\* [apiKey, input, pc, created, response]: input the parsed body, pc the call
\* it awaits next, created the id of the row it inserted (0: none).

\* an intake request that has passed requireRole and parseOpportunityInput
IntakeRequest(apiKey, body) ==
    [ apiKey |-> apiKey, input |-> parseOpportunityInput(body),
      pc |-> "findOpportunityByDedupeKey", created |-> 0, response |-> NoReply ]

\* The bodies of the concurrent requests: a listing, the same listing in
\* other spelling and with a price that rounds to the same cents, and a
\* listing from another source.
IntakeRaceBodies ==
    { IntakeBody(JsString(<<"A">>), JsString(<<"b">>), JsString(<<"a">>),
                 JsString(<<"T">>), JsNumber(1000)),
      IntakeBody(JsString(<<" ", "a", " ">>), JsString(<<"B">>), JsString(<<"a">>),
                 JsString(<<"t", " ">>), JsNumber(1004)),
      IntakeBody(JsString(<<"b">>), JsString(<<"b">>), JsString(<<"a">>),
                 JsString(<<"T">>), JsNumber(1000)) }

\* two intake requests arrive together
IntakeRequestsArrive(first, second) ==
    /\ Accept
    /\ requests = <<>>
    /\ requests' = << IntakeRequest("operator-key", first),
                      IntakeRequest("admin-key", second) >>
    /\ UNCHANGED <<opportunities, offers, items, positions, checklists, events, response,
                   faults, policyRules, tasks, evidence, valuations, call,
                   pool>>

\* POST /opportunities: findOpportunityByDedupeKey and the duplicate reply
postOpportunitiesFind(r) ==
    /\ r \in DOMAIN requests
    /\ requests[r].pc = "findOpportunityByDedupeKey"
    /\ IF findOpportunityByDedupeKey(requests[r].input.dedupeKey) # {}
       THEN Answer(r, Reply(409, <<"Duplicate opportunity",
                ToString(CHOOSE i \in findOpportunityByDedupeKey(
                             requests[r].input.dedupeKey) : TRUE)>>))
       ELSE requests' = [requests EXCEPT ![r].pc = "createOpportunity"]
    /\ UNCHANGED <<opportunities, offers, items, positions, checklists, events, response,
                   faults, policyRules, tasks, evidence, valuations, call,
                   pool>>

\* idx_opportunities_dedupe_key: the INSERT of a row whose dedupe_key is
\* stored already fails
uniqueViolation(dedupeKey) ==
    \E i \in DOMAIN opportunities : opportunities[i].dedupeKey = dedupeKey

\* POST /opportunities: createOpportunity.  The error of the INSERT is not
\* caught; the framework answers 500.
postOpportunitiesCreate(r) ==
    /\ r \in DOMAIN requests
    /\ requests[r].pc = "createOpportunity"
    /\ Len(opportunities) < MaxOpportunities
    /\ IF uniqueViolation(requests[r].input.dedupeKey)
       THEN /\ Answer(r, InternalError)
            /\ UNCHANGED opportunities
       ELSE /\ opportunities' = Append(opportunities, createOpportunity(requests[r].input))
            /\ requests' = [requests EXCEPT ![r].pc = "writeEvent",
                                            ![r].created = Len(opportunities) + 1]
    /\ UNCHANGED <<offers, items, positions, checklists, events, response,
                   faults, policyRules, tasks, evidence, valuations, call,
                   pool>>

\* POST /opportunities: writeEvent and the reply
postOpportunitiesEvent(r) ==
    /\ r \in DOMAIN requests
    /\ requests[r].pc = "writeEvent"
    /\ \E fault \in {"none", "audit"} :
           /\ MayThrow(fault)
           /\ IF fault = "audit"
              THEN /\ Answer(r, InternalError)
                   /\ faults' = faults + 1
                   /\ UNCHANGED events
              ELSE /\ writeEvent(
                        [ eventType |-> "opportunity.created",
                          entityType |-> "opportunity",
                          entityId |-> ToString(requests[r].created),
                          payload |->
                            [ actorUserId |-> authUser(requests[r].apiKey).id,
                              role |-> authUser(requests[r].apiKey).role,
                              source |-> requests[r].input.source,
                              category |-> requests[r].input.category ] ])
                   /\ Answer(r, Reply(201, NoError))
                   /\ UNCHANGED faults
    /\ UNCHANGED <<opportunities, offers, items, positions, checklists, response,
                   policyRules, tasks, evidence, valuations, call,
                   pool>>

IntakeRaceNext ==
    \/ /\ requests = <<>>
       /\ \/ ReplySent
          \/ \E body \in IntakeRaceBodies : PostOpportunities("operator-key", body)
    \/ \E first, second \in IntakeRaceBodies : IntakeRequestsArrive(first, second)
    \/ \E r \in {1, 2} :
           \/ postOpportunitiesFind(r)
           \/ postOpportunitiesCreate(r)
           \/ postOpportunitiesEvent(r)

\* Perhaps a listing is taken in, then two intake requests are handled
\* concurrently.
IntakeRaceSpec == Init /\ [][IntakeRaceNext]_vars

\* ------------------------------------------------------------ portfolio
\* PortfolioStatus
PortfolioStatuses ==
    { "seeded", "sourcing", "screened", "negotiating",
      "accepted_pending_verification", "verified", "completed", "failed", "disputed" }

\* Plausible slips in the table: a seeded position can skip sourcing; a
\* seeded position can be verified directly; a failed position can be taken
\* up again; a position awaiting verification cannot be disputed.
portfolioTransitions_SkipsSourcing(from) ==
    CASE from = "seeded" -> <<"sourcing", "screened">>
      [] from = "sourcing" -> <<"screened", "failed">>
      [] from = "screened" -> <<"negotiating", "failed">>
      [] from = "negotiating" -> <<"accepted_pending_verification", "failed">>
      [] from = "accepted_pending_verification" -> <<"verified", "failed", "disputed">>
      [] from = "verified" -> <<"completed", "failed", "disputed">>
      [] from = "completed" -> <<>>
      [] from = "failed" -> <<>>
      [] from = "disputed" -> <<>>

portfolioTransitions_SeededVerifies(from) ==
    CASE from = "seeded" -> <<"sourcing", "verified">>
      [] from = "sourcing" -> <<"screened", "failed">>
      [] from = "screened" -> <<"negotiating", "failed">>
      [] from = "negotiating" -> <<"accepted_pending_verification", "failed">>
      [] from = "accepted_pending_verification" -> <<"verified", "failed", "disputed">>
      [] from = "verified" -> <<"completed", "failed", "disputed">>
      [] from = "completed" -> <<>>
      [] from = "failed" -> <<>>
      [] from = "disputed" -> <<>>

portfolioTransitions_FailedReopens(from) ==
    CASE from = "seeded" -> <<"sourcing">>
      [] from = "sourcing" -> <<"screened", "failed">>
      [] from = "screened" -> <<"negotiating", "failed">>
      [] from = "negotiating" -> <<"accepted_pending_verification", "failed">>
      [] from = "accepted_pending_verification" -> <<"verified", "failed", "disputed">>
      [] from = "verified" -> <<"completed", "failed", "disputed">>
      [] from = "completed" -> <<>>
      [] from = "failed" -> <<"sourcing">>
      [] from = "disputed" -> <<>>

portfolioTransitions_NoDispute(from) ==
    CASE from = "seeded" -> <<"sourcing">>
      [] from = "sourcing" -> <<"screened", "failed">>
      [] from = "screened" -> <<"negotiating", "failed">>
      [] from = "negotiating" -> <<"accepted_pending_verification", "failed">>
      [] from = "accepted_pending_verification" -> <<"verified", "failed">>
      [] from = "verified" -> <<"completed", "failed", "disputed">>
      [] from = "completed" -> <<>>
      [] from = "failed" -> <<>>
      [] from = "disputed" -> <<>>

\* portfolioTransitions[from]: the array of statuses a position may move to
portfolioTransitions(from) ==
    CASE from = "seeded" -> <<"sourcing">>
      [] from = "sourcing" -> <<"screened", "failed">>
      [] from = "screened" -> <<"negotiating", "failed">>
      [] from = "negotiating" -> <<"accepted_pending_verification", "failed">>
      [] from = "accepted_pending_verification" -> <<"verified", "failed", "disputed">>
      [] from = "verified" -> <<"completed", "failed", "disputed">>
      [] from = "completed" -> <<>>
      [] from = "failed" -> <<>>
      [] from = "disputed" -> <<>>

\* Array.prototype.includes
includes(array, value) == \E i \in 1..Len(array) : array[i] = value

\* isValidPortfolioStatus: value is a key of portfolioTransitions
isValidPortfolioStatus(value) == value \in PortfolioStatuses

\* canTransitionPortfolioStatus
canTransitionPortfolioStatus(from, to) == includes(portfolioTransitions(from), to)

\* AuthRepository.createPortfolioPosition: the rows inserted into items and
\* portfolio_positions between BEGIN and COMMIT
createPortfolioPositionItem(input) ==
    [ title |-> input.title.value,
      category |-> "uncategorized",
      condition |-> NULL,
      location |-> NULL,
      estValueUsd |-> IF input.acquisitionValueUsd.type = "number"
                      THEN input.acquisitionValueUsd.value ELSE NULL ]

createPortfolioPosition(itemId, input) ==
    [ itemId |-> itemId,
      acquisitionValueUsd |-> IF input.acquisitionValueUsd.type = "number"
                              THEN input.acquisitionValueUsd.value ELSE NULL,
      currentStatus |-> "seeded" ]

\* AuthRepository.getPortfolioPositionById
getPortfolioPositionById(positionId) == {i \in 1..Len(positions) : i = positionId}

\* AuthRepository.updatePortfolioPositionStatus: the updated row
updatePortfolioPositionStatus(position, status) ==
    [position EXCEPT !.currentStatus = status]

\* AuthRepository.createPortfolioVerificationChecklist: the inserted row
createPortfolioVerificationChecklist(input) ==
    [ portfolioPositionId |-> input.portfolioPositionId,
      checks |-> input.checks,
      passed |-> input.passed,
      outcomeStatus |-> input.outcomeStatus,
      createdByUserId |-> input.createdByUserId ]

\* the bodies POST /portfolio/positions is drawn from; values in cents
PositionBodies ==
    { [title |-> JsString(<<"T">>), acquisitionValueUsd |-> JsNumber(90)],
      [title |-> UndefinedText, acquisitionValueUsd |-> UndefinedNumber] }

PositionIdParams == 0..(MaxPositions + 1)

\* The API keys the portfolio routes are checked with: the operator and the
\* reviewer of the seeded users, an unknown key and no key.
PortfolioApiKeys == {"operator-key", "reviewer-key", "unknown-key", NoApiKey}

\* the targetStatus of a transition request: a status or any other string
TargetStatusParams == PortfolioStatuses \cup {"unknown"}

\* a check of a checklist request: true, false, or absent/non-boolean
CheckParams == {JsBoolean(TRUE), JsBoolean(FALSE), UndefinedBoolean}

\* the disputed flag of a checklist request: set, or absent
DisputedParams == {JsBoolean(TRUE), UndefinedBoolean}

\* The checklist bodies requests are drawn from: every combination of four
\* boolean checks with the disputed flag set or absent, and the bodies with
\* one check missing.
ChecklistBodies ==
    { b \in [ identityConfirmed : CheckParams, conditionConfirmed : CheckParams,
              receiptProvided : CheckParams, ownershipProofProvided : CheckParams,
              disputed : DisputedParams ] :
        \/ /\ b.identityConfirmed.type = "boolean"
           /\ b.conditionConfirmed.type = "boolean"
           /\ b.receiptProvided.type = "boolean"
           /\ b.ownershipProofProvided.type = "boolean"
        \/ /\ Cardinality({ f \in { "identityConfirmed", "conditionConfirmed",
                                    "receiptProvided", "ownershipProofProvided" } :
                              b[f].type # "boolean" }) = 1
           /\ \A f \in { "identityConfirmed", "conditionConfirmed",
                         "receiptProvided", "ownershipProofProvided" } :
                  b[f].type = "boolean" => b[f].value
           /\ b.disputed = UndefinedBoolean }

\* POST /portfolio/positions
PostPortfolioPositions(apiKey, body) ==
    /\ Accept
    /\ UNCHANGED <<opportunities, offers, checklists, policyRules, tasks, evidence,
                   valuations, call, requests, pool>>
    /\ IF requireRole({"admin", "operator"}, apiKey) # NoReply
       THEN /\ response' = requireRole({"admin", "operator"}, apiKey)
            /\ UNCHANGED <<items, positions, events, faults>>
       ELSE IF body.title.type # "string" \/ Len(trim(body.title.value)) = 0
       THEN /\ response' = Reply(400, <<"title is required">>)
            /\ UNCHANGED <<items, positions, events, faults>>
       ELSE \E fault \in Faults :
            /\ MayThrow(fault)
            /\ Len(positions) < MaxPositions
            /\ IF fault = "write"
               THEN /\ response' = InternalError
                    /\ UNCHANGED <<items, positions, events, faults>>
               ELSE /\ items' = Append(items, createPortfolioPositionItem(body))
                    /\ positions' = Append(positions,
                                        createPortfolioPosition(Len(items) + 1, body))
                    /\ IF fault = "audit"
                       THEN /\ response' = InternalError
                            /\ faults' = faults + 1
                            /\ UNCHANGED events
                       ELSE /\ writeEvent(
                                 [ eventType |-> "portfolio.position_created",
                                   entityType |-> "portfolio_position",
                                   entityId |-> ToString(Len(positions) + 1),
                                   payload |-> [ actorUserId |-> authUser(apiKey).id,
                                                 status |-> "seeded" ] ])
                            /\ response' = Reply(201, NoError)
                            /\ UNCHANGED faults

\* The lifecycle transition of a position: the table check, the update and
\* its audit event.
changePortfolioStatus(positionId, targetStatus, actorUserId, fault) ==
    IF ~canTransitionPortfolioStatus(positions[positionId].currentStatus, targetStatus)
    THEN /\ response' = Reply(409, <<"Invalid transition from",
                                     positions[positionId].currentStatus,
                                     "to", targetStatus>>)
         /\ UNCHANGED <<positions, events, faults>>
    ELSE IF fault = "write"
    THEN /\ response' = InternalError
         /\ UNCHANGED <<positions, events, faults>>
    ELSE /\ positions' = [positions EXCEPT ![positionId] =
                             updatePortfolioPositionStatus(positions[positionId],
                                                           targetStatus)]
         /\ IF fault = "audit"
            THEN /\ response' = InternalError
                 /\ faults' = faults + 1
                 /\ UNCHANGED events
            ELSE /\ writeEvent(
                      [ eventType |-> "portfolio.status_changed",
                        entityType |-> "portfolio_position",
                        entityId |-> ToString(positionId),
                        payload |-> [ from |-> positions[positionId].currentStatus,
                                      to |-> targetStatus,
                                      actorUserId |-> actorUserId ] ])
                 /\ response' = Reply(200, NoError)
                 /\ UNCHANGED faults

\* POST /portfolio/positions/:positionId/transition
PostPortfolioTransition(apiKey, positionId, targetStatus) ==
    /\ Accept
    /\ UNCHANGED <<opportunities, offers, items, checklists, policyRules, tasks, evidence,
                   valuations, call, requests, pool>>
    /\ IF requireRole({"admin", "operator"}, apiKey) # NoReply
       THEN /\ response' = requireRole({"admin", "operator"}, apiKey)
            /\ UNCHANGED <<positions, events, faults>>
       ELSE IF ~parsePositiveId(positionId)
       THEN /\ response' = Reply(400, <<"Invalid positionId">>)
            /\ UNCHANGED <<positions, events, faults>>
       ELSE IF ~isValidPortfolioStatus(targetStatus)
       THEN /\ response' = Reply(400, <<"Invalid targetStatus">>)
            /\ UNCHANGED <<positions, events, faults>>
       ELSE IF getPortfolioPositionById(positionId) = {}
       THEN /\ response' = Reply(404, <<"Portfolio position not found">>)
            /\ UNCHANGED <<positions, events, faults>>
       ELSE \E fault \in Faults :
            /\ MayThrow(fault)
            /\ changePortfolioStatus(positionId, targetStatus, authUser(apiKey).id, fault)

\* A slip in the validation: only the first check is required to be a
\* boolean.
checklistInputValid_IdentityOnly(body) == body.identityConfirmed.type = "boolean"

\* the four required checks of a checklist request are all booleans
checklistInputValid(body) ==
    /\ body.identityConfirmed.type = "boolean"
    /\ body.conditionConfirmed.type = "boolean"
    /\ body.receiptProvided.type = "boolean"
    /\ body.ownershipProofProvided.type = "boolean"

checklistChecks(body) ==
    [ identityConfirmed |-> body.identityConfirmed.value,
      conditionConfirmed |-> body.conditionConfirmed.value,
      receiptProvided |-> body.receiptProvided.value,
      ownershipProofProvided |-> body.ownershipProofProvided.value ]

\* passed: the logical AND of the four checks
checklistPassed(checks) ==
    /\ checks.identityConfirmed
    /\ checks.conditionConfirmed
    /\ checks.receiptProvided
    /\ checks.ownershipProofProvided

\* the disputed flag of a checklist request is set
disputedFlag(body) == body.disputed.type = "boolean" /\ body.disputed.value

\* outcome routing of a checklist
checklistOutcome(passed, disputed) ==
    IF passed THEN "verified" ELSE IF disputed THEN "disputed" ELSE "failed"

\* A slip in the guard of the checklist: a run is let through whenever the
\* table has a way out of the position's status to the outcome statuses.
checklistRunnable_TableOnly(status) == canTransitionPortfolioStatus(status, "failed")

\* a checklist can be run on a position in this status
checklistRunnable(status) == status = "accepted_pending_verification"

\* The repository call of a checklist run that throws: as Faults, or the
\* insert of the checklist record itself.
ChecklistFaults == Faults \cup {"checklist"}

\* POST /portfolio/positions/:positionId/verification-checklist
PostVerificationChecklist(apiKey, positionId, body) ==
    /\ Accept
    /\ UNCHANGED <<opportunities, offers, items>>
    /\ UNCHANGED <<policyRules, tasks, evidence,
                   valuations, call, requests, pool>>
    /\ IF requireRole({"admin", "reviewer"}, apiKey) # NoReply
       THEN /\ response' = requireRole({"admin", "reviewer"}, apiKey)
            /\ UNCHANGED <<positions, checklists, events, faults>>
       ELSE IF ~parsePositiveId(positionId)
       THEN /\ response' = Reply(400, <<"Invalid positionId">>)
            /\ UNCHANGED <<positions, checklists, events, faults>>
       ELSE IF ~checklistInputValid(body)
       THEN /\ response' = Reply(400, <<"identityConfirmed, conditionConfirmed, receiptProvided, and ownershipProofProvided are required booleans">>)
            /\ UNCHANGED <<positions, checklists, events, faults>>
       ELSE IF getPortfolioPositionById(positionId) = {}
       THEN /\ response' = Reply(404, <<"Portfolio position not found">>)
            /\ UNCHANGED <<positions, checklists, events, faults>>
       ELSE IF ~checklistRunnable(positions[positionId].currentStatus)
       THEN /\ response' = Reply(409, <<"Position must be in accepted_pending_verification",
                                        positions[positionId].currentStatus>>)
            /\ UNCHANGED <<positions, checklists, events, faults>>
       ELSE \E fault \in ChecklistFaults :
            /\ MayThrow(fault)
            /\ Len(checklists) < MaxChecklists
            /\ IF fault = "checklist"
               THEN /\ response' = InternalError
                    /\ UNCHANGED <<positions, checklists, events, faults>>
               ELSE /\ checklists' = Append(checklists,
                        createPortfolioVerificationChecklist(
                          [ portfolioPositionId |-> positionId,
                            checks |-> checklistChecks(body),
                            passed |-> checklistPassed(checklistChecks(body)),
                            outcomeStatus |->
                                checklistOutcome(checklistPassed(checklistChecks(body)),
                                                 disputedFlag(body)),
                            createdByUserId |-> ToString(authUser(apiKey).id) ]))
                    /\ changePortfolioStatus(positionId,
                           checklistOutcome(checklistPassed(checklistChecks(body)),
                                            disputedFlag(body)),
                           authUser(apiKey).id, fault)

PortfolioNext ==
    \/ ReplySent
    \/ \E apiKey \in PortfolioApiKeys, body \in PositionBodies :
           PostPortfolioPositions(apiKey, body)
    \/ \E apiKey \in PortfolioApiKeys, positionId \in PositionIdParams,
          targetStatus \in TargetStatusParams :
           PostPortfolioTransition(apiKey, positionId, targetStatus)
    \/ \E apiKey \in PortfolioApiKeys, positionId \in PositionIdParams, body \in ChecklistBodies :
           PostVerificationChecklist(apiKey, positionId, body)

\* The portfolio lifecycle: position creation, the transition endpoint and
\* the verification checklist, requests handled one at a time.
PortfolioSpec == Init /\ [][PortfolioNext]_vars

\* ------------------------------------------------------------ policy
toUpperChar(c) ==
    CASE c = "a" -> "A"
      [] c = "b" -> "B"
      [] c = "t" -> "T"
      [] OTHER -> c

toUpperCase(s) == [i \in 1..Len(s) |-> toUpperChar(s[i])]

\* the characters of the class [A-Z0-9]
UpperAlphanumerics ==
    { "A", "B", "C", "D", "E", "F", "G", "H", "I", "J", "K", "L", "M",
      "N", "O", "P", "Q", "R", "S", "T", "U", "V", "W", "X", "Y", "Z",
      "0", "1", "2", "3", "4", "5", "6", "7", "8", "9" }

\* s.replace(/[^A-Z0-9]/g, "_")
replaceNonAlphanumerics(s) ==
    [i \in 1..Len(s) |-> IF s[i] \in UpperAlphanumerics THEN s[i] ELSE "_"]

\* AuthRepository.getPolicyRule: the rows with exactly this platform and action
getPolicyRule(platform, action) ==
    {rule \in policyRules : rule.platform = platform /\ rule.action = action}

\* upsertPolicyRule keeping the existing row on a conflict
upsertPolicyRule_KeepsExisting(rule) ==
    IF \E r \in policyRules : r.platform = rule.platform /\ r.action = rule.action
    THEN policyRules
    ELSE policyRules \cup {rule}

\* AuthRepository.upsertPolicyRule: the table after INSERT ... ON CONFLICT
\* (platform, action) DO UPDATE
upsertPolicyRule(rule) ==
    {r \in policyRules : ~(r.platform = rule.platform /\ r.action = rule.action)}
        \cup {rule}

\* evaluatePolicy: the policy code of a matching rule
policyCode(normalizedPlatform, normalizedAction) ==
    <<"P", "O", "L", "I", "C", "Y", "_">> \o toUpperCase(normalizedPlatform)
        \o <<"_">> \o replaceNonAlphanumerics(toUpperCase(normalizedAction))

POLICY_DEFAULT_ALLOW ==
    << "P", "O", "L", "I", "C", "Y", "_", "D", "E", "F", "A", "U", "L", "T", "_",
       "A", "L", "L", "O", "W" >>

\* evaluatePolicy denying whatever has no rule
evaluatePolicy_DefaultDeny(platform, action) ==
    LET rule == getPolicyRule(normalizeText(platform), normalizeText(action))
    IN  IF rule # {}
        THEN [ allowed |-> (CHOOSE r \in rule : TRUE).allowed,
               reason |-> (CHOOSE r \in rule : TRUE).reason,
               policyCode |-> policyCode(normalizeText(platform),
                                         normalizeText(action)) ]
        ELSE [ allowed |-> FALSE,
               reason |-> "No explicit deny rule found.",
               policyCode |-> POLICY_DEFAULT_ALLOW ]

\* evaluatePolicy: the decision for a platform and an action
evaluatePolicy(platform, action) ==
    LET normalizedPlatform == normalizeText(platform)
        normalizedAction == normalizeText(action)
        rule == getPolicyRule(normalizedPlatform, normalizedAction)
    IN  IF rule # {}
        THEN [ allowed |-> (CHOOSE r \in rule : TRUE).allowed,
               reason |-> (CHOOSE r \in rule : TRUE).reason,
               policyCode |-> policyCode(normalizedPlatform, normalizedAction) ]
        ELSE [ allowed |-> TRUE,
               reason |-> "No explicit deny rule found.",
               policyCode |-> POLICY_DEFAULT_ALLOW ]

\* policyDecisionEvent recording every decision as an allow
policyDecisionEvent_AlwaysAllowed(platform, action, actorUserId) ==
    [ eventType |-> "policy.decision",
      entityType |-> "policy_rule",
      entityId |-> normalizeText(platform) \o <<":">> \o normalizeText(action),
      payload |-> [ actorUserId |-> actorUserId,
                    allowed |-> TRUE,
                    reason |-> "",
                    policyCode |-> POLICY_DEFAULT_ALLOW ] ]

\* evaluatePolicy: the policy.decision event it writes
policyDecisionEvent(platform, action, actorUserId) ==
    [ eventType |-> "policy.decision",
      entityType |-> "policy_rule",
      entityId |-> normalizeText(platform) \o <<":">> \o normalizeText(action),
      payload |-> [ actorUserId |-> actorUserId,
                    allowed |-> evaluatePolicy(platform, action).allowed,
                    reason |-> evaluatePolicy(platform, action).reason,
                    policyCode |-> evaluatePolicy(platform, action).policyCode ] ]

\* the reply that carries a policy decision: 403 with allowed false, the
\* policy code and the reason, or 202 with allowed true, the policy code and
\* status queued
DecisionReply(statusCode, allowed, code, detail) ==
    [ statusCode |-> statusCode, error |-> NoError,
      allowed |-> allowed, policyCode |-> code, detail |-> detail ]

\* The API keys the policy routes are checked with.
PolicyApiKeys == {"admin-key", "operator-key", "reviewer-key", NoApiKey}

\* The rules an admin upserts: a deny rule and an allow rule for the same
\* normalized pair, with a non-alphanumeric character in the platform and in
\* the action, and a deny rule whose platform is not in normalized spelling.
PolicyRuleInputs ==
    { [ platform |-> <<"a", "-", "b">>, action |-> <<"b", " ", "b">>,
        allowed |-> FALSE, reason |-> "blocked by terms of service" ],
      [ platform |-> <<"a", "-", "b">>, action |-> <<"b", " ", "b">>,
        allowed |-> TRUE, reason |-> "reviewed and allowed" ],
      [ platform |-> <<"A">>, action |-> <<"b", " ", "b">>,
        allowed |-> FALSE, reason |-> "blocked by terms of service" ] }

\* The outbound actions requests are drawn from: one that normalizes to the
\* pair of the first two rules, one that normalizes to a pair without rule,
\* and ones without platform or action.
OutboundActionBodies ==
    { [ platform |-> JsString(<<" ", "A", "-", "b">>),
        action |-> JsString(<<"B", " ", " ", "b">>) ],
      [ platform |-> JsString(<<"A">>), action |-> JsString(<<"b", " ", "b">>) ],
      [ platform |-> UndefinedText, action |-> JsString(<<"b">>) ],
      [ platform |-> JsString(<<"a">>), action |-> JsString(<<>>) ] }

\* POST /admin/policy-rules
PostAdminPolicyRules(apiKey, payload) ==
    /\ Accept
    /\ UNCHANGED <<opportunities, offers, items, positions, checklists, tasks, evidence,
                   valuations, call, requests, pool>>
    /\ IF requireRole({"admin"}, apiKey) # NoReply
       THEN /\ response' = requireRole({"admin"}, apiKey)
            /\ UNCHANGED <<policyRules, events, faults>>
       ELSE \E fault \in Faults :
            /\ MayThrow(fault)
            /\ Len(events) < MaxPolicyEvents
            /\ IF fault = "write"
               THEN /\ response' = InternalError
                    /\ UNCHANGED <<policyRules, events, faults>>
               ELSE /\ policyRules' = upsertPolicyRule(payload)
                    /\ IF fault = "audit"
                       THEN /\ response' = InternalError
                            /\ faults' = faults + 1
                            /\ UNCHANGED events
                       ELSE /\ writeEvent(
                                 [ eventType |-> "critical.policy_rule_upsert",
                                   entityType |-> "policy_rule",
                                   entityId |-> payload.platform \o <<":">>
                                                    \o payload.action,
                                   payload |-> [ actorUserId |-> authUser(apiKey).id,
                                                 role |-> authUser(apiKey).role,
                                                 allowed |-> payload.allowed ] ])
                            /\ response' = Reply(200, NoError)
                            /\ UNCHANGED faults

\* POST /outbound/actions
PostOutboundActions(apiKey, body) ==
    /\ Accept
    /\ UNCHANGED <<opportunities, offers, items, positions, checklists, tasks, evidence,
                   valuations, call, requests, pool>>
    /\ UNCHANGED policyRules
    /\ IF requireRole({"admin", "operator"}, apiKey) # NoReply
       THEN /\ response' = requireRole({"admin", "operator"}, apiKey)
            /\ UNCHANGED <<events, faults>>
       ELSE IF \/ body.platform.type # "string" \/ body.platform.value = <<>>
               \/ body.action.type # "string" \/ body.action.value = <<>>
       THEN /\ response' = Reply(400, <<"platform and action are required">>)
            /\ UNCHANGED <<events, faults>>
       ELSE \E fault \in Faults :
            /\ MayThrow(fault)
            /\ Len(events) < MaxPolicyEvents
            /\ IF fault = "write"
               THEN /\ response' = InternalError
                    /\ UNCHANGED <<events, faults>>
               ELSE IF fault = "audit"
               THEN /\ response' = InternalError
                    /\ faults' = faults + 1
                    /\ UNCHANGED events
               ELSE /\ writeEvent(policyDecisionEvent(body.platform.value,
                                      body.action.value, authUser(apiKey).id))
                    /\ UNCHANGED faults
                    /\ IF ~evaluatePolicy(body.platform.value, body.action.value).allowed
                       THEN response' = DecisionReply(403, FALSE,
                                evaluatePolicy(body.platform.value,
                                               body.action.value).policyCode,
                                evaluatePolicy(body.platform.value,
                                               body.action.value).reason)
                       ELSE response' = DecisionReply(202, TRUE,
                                evaluatePolicy(body.platform.value,
                                               body.action.value).policyCode,
                                "queued")

PolicyNext ==
    \/ ReplySent
    \/ \E apiKey \in PolicyApiKeys, payload \in PolicyRuleInputs :
           PostAdminPolicyRules(apiKey, payload)
    \/ \E apiKey \in PolicyApiKeys, body \in OutboundActionBodies :
           PostOutboundActions(apiKey, body)

\* The policy guard: rule upserts and outbound actions, requests handled one
\* at a time.
PolicySpec == Init /\ [][PolicyNext]_vars

\* ------------------------------------------------------------ tasks
TaskTypes == {"inspect", "pickup", "meet", "ship"}

\* request.body.type absent
NoTaskType == ""

\* the rejection of the promise taskProvider.createTask returns
ProviderFailure == [providerName |-> "", providerTaskId |-> <<>>]

\* How a call of the task provider ends: it returns a provider task, it
\* fails, or it does not answer in time.
ProviderOutcomes == {"returned", "failed", "timeout"}

\* The random suffixes of provider task ids.
ProviderSuffixes == {"k3x9", "p7q2"}

\* TaskProvider.createTask falling back to a made-up task when the call fails
createTask_IgnoresFailure(input, outcome, suffix) ==
    [ providerName |-> "rentahuman_stub",
      providerTaskId |-> <<input.type, "-", suffix>> ]

\* TaskProvider.createTask: the provider task, or ProviderFailure when the
\* promise is rejected
createTask(input, outcome, suffix) ==
    IF outcome = "returned"
    THEN [ providerName |-> "rentahuman_stub",
           providerTaskId |-> <<input.type, "-", suffix>> ]
    ELSE ProviderFailure

\* AuthRepository.createTaskRecord: the row it inserts, its id the next one
createTaskRecord(input) ==
    [ id |-> Len(tasks) + 1,
      type |-> input.type,
      assignee |-> input.assignee,
      status |-> "queued",
      providerName |-> input.providerName,
      providerTaskId |-> input.providerTaskId ]

\* idx_tasks_provider_task_id: the INSERT of createTaskRecord throws when a row
\* has this provider task id
providerTaskIdTaken(providerTaskId) ==
    \E i \in DOMAIN tasks : tasks[i].providerTaskId = providerTaskId

\* The API keys the task route is checked with.
TaskApiKeys == {"operator-key", "reviewer-key", NoApiKey}

\* The task bodies requests are drawn from.
TaskBodies ==
    { [type |-> type, assignee |-> assignee] :
        type \in {"inspect", "ship", "fly", NoTaskType},
        assignee \in {"runner", "undefined"} }

\* POST /tasks
PostTasks(apiKey, body, outcome, suffix) ==
    /\ Accept
    /\ UNCHANGED <<opportunities, offers, items, positions, checklists, policyRules, evidence,
                   valuations, call, requests, pool>>
    /\ IF requireRole({"admin", "operator"}, apiKey) # NoReply
       THEN /\ response' = requireRole({"admin", "operator"}, apiKey)
            /\ UNCHANGED <<tasks, events, faults>>
       ELSE IF body.type = NoTaskType \/ body.type \notin TaskTypes
       THEN /\ response' = Reply(400, <<"type must be one of inspect, pickup, meet, ship">>)
            /\ UNCHANGED <<tasks, events, faults>>
       ELSE IF createTask(body, outcome, suffix) = ProviderFailure
       THEN /\ response' = InternalError
            /\ UNCHANGED <<tasks, events, faults>>
       ELSE \E fault \in Faults :
            /\ MayThrow(fault)
            /\ Len(tasks) < MaxTasks
            /\ Len(events) < MaxTaskEvents
            /\ IF \/ fault = "write"
                  \/ providerTaskIdTaken(createTask(body, outcome, suffix).providerTaskId)
               THEN /\ response' = InternalError
                    /\ UNCHANGED <<tasks, events, faults>>
               ELSE /\ tasks' = Append(tasks,
                            createTaskRecord(
                                [ type |-> body.type,
                                  assignee |-> body.assignee,
                                  providerName |->
                                      createTask(body, outcome, suffix).providerName,
                                  providerTaskId |->
                                      createTask(body, outcome, suffix).providerTaskId ]))
                    /\ IF fault = "audit"
                       THEN /\ response' = InternalError
                            /\ faults' = faults + 1
                            /\ UNCHANGED events
                       ELSE /\ writeEvent(
                                 [ eventType |-> "task.created",
                                   entityType |-> "task",
                                   entityId |-> ToString(Len(tasks) + 1),
                                   payload |->
                                       [ actorUserId |-> authUser(apiKey).id,
                                         providerName |->
                                             createTask(body, outcome, suffix).providerName,
                                         providerTaskId |->
                                             createTask(body, outcome, suffix).providerTaskId ] ])
                            /\ response' = Reply(201, NoError)
                            /\ UNCHANGED faults

validTaskStatuses == <<"queued", "in_progress", "completed", "failed">>

\* process.env.PROVIDER_WEBHOOK_TOKEN ?? "dev-webhook-token"
expectedToken == "dev-webhook-token"

\* request.headers["x-webhook-token"] absent
NoWebhookToken == "undefined"

\* request.body.status absent
NoTaskStatus == ""

\* The x-webhook-token headers requests are drawn from: the secret, a
\* respelling of it, a prefix of it, and none.
WebhookTokens == {"dev-webhook-token", "Dev-Webhook-Token", "dev-webhook", NoWebhookToken}

\* The webhook bodies requests are drawn from.
WebhookBodies ==
    { [providerTaskId |-> providerTaskId, status |-> status] :
        providerTaskId \in { JsString(<<"inspect", "-", "k3x9">>),
                             JsString(<<"ship", "-", "p7q2">>),
                             JsString(<<>>), UndefinedText },
        status \in {"in_progress", "completed", "done", NoTaskStatus} }

\* updateTaskStatusByProviderTaskId changing the first row of the table
updateTaskStatusByProviderTaskId_FirstRow(providerTaskId, status) ==
    [i \in DOMAIN tasks |->
        IF i = 1 THEN [tasks[i] EXCEPT !.status = status] ELSE tasks[i]]

\* AuthRepository.updateTaskStatusByProviderTaskId: the table after UPDATE
\* tasks SET status ... WHERE provider_task_id = $1
updateTaskStatusByProviderTaskId(providerTaskId, status) ==
    [i \in DOMAIN tasks |->
        IF tasks[i].providerTaskId = providerTaskId
        THEN [tasks[i] EXCEPT !.status = status]
        ELSE tasks[i]]

\* POST /tasks/webhook/provider
PostTasksWebhookProvider(webhookToken, body) ==
    /\ Accept
    /\ UNCHANGED <<opportunities, offers, items, positions, checklists, policyRules,
                   evidence, valuations, call, requests, pool>>
    /\ IF webhookToken # expectedToken
       THEN /\ response' = Reply(401, <<"Invalid webhook token">>)
            /\ UNCHANGED <<tasks, events, faults>>
       ELSE IF \/ body.providerTaskId.type # "string"
               \/ Len(body.providerTaskId.value) = 0
               \/ body.status = NoTaskStatus
               \/ ~includes(validTaskStatuses, body.status)
       THEN /\ response' = Reply(400, <<"providerTaskId and valid status are required">>)
            /\ UNCHANGED <<tasks, events, faults>>
       ELSE \E fault \in Faults :
            /\ MayThrow(fault)
            /\ IF fault = "write"
               THEN /\ response' = InternalError
                    /\ UNCHANGED <<tasks, events, faults>>
               ELSE IF ~providerTaskIdTaken(body.providerTaskId.value)
               THEN /\ fault = "none"
                    /\ response' = Reply(404, <<"Task not found">>)
                    /\ UNCHANGED <<tasks, events, faults>>
               ELSE /\ Len(events) < MaxTaskEvents
                    /\ tasks' = updateTaskStatusByProviderTaskId(
                                    body.providerTaskId.value, body.status)
                    /\ IF fault = "audit"
                       THEN /\ response' = InternalError
                            /\ faults' = faults + 1
                            /\ UNCHANGED events
                       ELSE /\ writeEvent(
                                 [ eventType |-> "task.status_changed",
                                   entityType |-> "task",
                                   entityId |->
                                       ToString(CHOOSE i \in DOMAIN tasks :
                                                    tasks[i].providerTaskId
                                                        = body.providerTaskId.value),
                                   payload |->
                                       [ providerTaskId |-> body.providerTaskId.value,
                                         status |-> body.status ] ])
                            /\ response' = Reply(200, NoError)
                            /\ UNCHANGED faults

TaskNext ==
    \/ ReplySent
    \/ \E apiKey \in TaskApiKeys, body \in TaskBodies,
          outcome \in ProviderOutcomes, suffix \in ProviderSuffixes :
           PostTasks(apiKey, body, outcome, suffix)
    \/ \E webhookToken \in WebhookTokens, body \in WebhookBodies :
           PostTasksWebhookProvider(webhookToken, body)

\* Task creation, requests handled one at a time.
TaskSpec == Init /\ [][TaskNext]_vars

\* ------------------------------------------------------------ task provider
\* RentAHumanApiProvider.createTask.  The call is
\* [type, pc, timer, aborted, ok, outcome, providerTaskId, error]: pc the
\* promise it awaits ("fetch": fetchImpl, "text": response.text()), timer
\* the state of the timeout ("armed", "fired", "cleared"), aborted the
\* controller's signal.  The code between two awaits runs to completion, so
\* the arrival of the body, the checks after it and the finally block are
\* one step.

\* a JSON object as far as extractProviderTaskId reads it
JsObject(id, bountyId, taskId, data) ==
    [ type |-> "object", id |-> id, bountyId |-> bountyId, taskId |-> taskId,
      data |-> data ]

\* {} and { raw: responseText }
EmptyObject == JsObject(UndefinedText, UndefinedText, UndefinedText, UndefinedText)

\* extractProviderTaskId: [...directCandidates, ...nestedCandidates]
providerTaskIdCandidates(payload) ==
    <<payload.id, payload.bountyId, payload.taskId>>
        \o (IF payload.data.type = "object"
            THEN <<payload.data.id, payload.data.bountyId, payload.data.taskId>>
            ELSE <<>>)

\* A slip: the ids under data are not looked at.
extractProviderTaskId_TopLevelOnly(payload) ==
    IF payload.type # "object" THEN NULL
    ELSE LET candidates == <<payload.id, payload.bountyId, payload.taskId>>
             found == {i \in DOMAIN candidates :
                          candidates[i].type \in {"string", "number"}}
         IN  IF found = {} THEN NULL
             ELSE LET value == candidates[CHOOSE i \in found : \A j \in found : i <= j]
                  IN  IF value.type = "string" THEN value.value
                      ELSE IF isFinite(value) THEN digits(value.value)
                      ELSE NULL

\* extractProviderTaskId: the first candidate that is a string or a number,
\* as a string; NULL when there is none
extractProviderTaskId(payload) ==
    IF payload.type # "object" THEN NULL
    ELSE LET candidates == providerTaskIdCandidates(payload)
             found == {i \in DOMAIN candidates :
                          candidates[i].type \in {"string", "number"}}
         IN  IF found = {} THEN NULL
             ELSE LET value == candidates[CHOOSE i \in found : \A j \in found : i <= j]
                  IN  IF value.type = "string" THEN value.value
                      ELSE IF isFinite(value) THEN digits(value.value)
                      ELSE NULL

\* the text of a response body: blank, not JSON, or JSON of a value
ResponseText(blank, json, value) == [blank |-> blank, json |-> json, value |-> value]

\* createTask: parsedPayload
parsedPayload(responseText) ==
    IF responseText.blank THEN EmptyObject
    ELSE IF ~responseText.json THEN EmptyObject
    ELSE responseText.value

\* The values of a candidate in the bodies the provider answers with:
\* absent, an id, the empty string, a number.
CandidateValues ==
    { UndefinedText, JsString(<<"b", "1">>), JsString(<<>>), JsNumber(42) }

\* The bodies the provider answers with: blank, not JSON, JSON of a string,
\* and JSON of an object with any of the candidate values as id, bountyId
\* and taskId, and with data absent, a string, or an object with an id or a
\* taskId or both.
ResponseTexts ==
    { ResponseText(TRUE, FALSE, EmptyObject),
      ResponseText(FALSE, FALSE, EmptyObject),
      ResponseText(FALSE, TRUE, JsString(<<"b", "1">>)) }
    \cup { ResponseText(FALSE, TRUE, JsObject(id, bountyId, taskId, data)) :
             id \in CandidateValues, bountyId \in CandidateValues,
             taskId \in CandidateValues,
             data \in { UndefinedText, JsString(<<"d">>) }
                      \cup { JsObject(nestedId, UndefinedText, nestedTaskId, UndefinedText) :
                               nestedId \in CandidateValues,
                               nestedTaskId \in {UndefinedText, JsString(<<"t", "9">>)} } }

\* the call has not been made
NoProviderCall ==
    [ type |-> NoTaskType, pc |-> "idle", timer |-> "none", aborted |-> FALSE,
      ok |-> FALSE, payload |-> EmptyObject, outcome |-> "pending",
      providerTaskId |-> NULL, error |-> <<>> ]

\* the call made and not settled
providerCallPending == requests # <<>> /\ requests[1].outcome = "pending"

\* createTask up to await this.fetchImpl(...): the timer is armed and the
\* request is sent
createTaskFetch(type) ==
    /\ requests = <<>>
    /\ requests' = << [NoProviderCall EXCEPT !.type = type, !.pc = "fetch",
                                             !.timer = "armed"] >>
    /\ UNCHANGED <<opportunities, offers, items, positions, checklists, events, response,
                   faults, policyRules, tasks, evidence, valuations, call, pool>>

\* setTimeout(() => controller.abort(), this.timeoutMs): the timeout has
\* passed
timeoutFires ==
    /\ providerCallPending
    /\ requests[1].timer = "armed"
    /\ requests' = [requests EXCEPT ![1].timer = "fired", ![1].aborted = TRUE]
    /\ UNCHANGED <<opportunities, offers, items, positions, checklists, events, response,
                   faults, policyRules, tasks, evidence, valuations, call, pool>>

\* the finally block: clearTimeout(timeoutHandle)
clearTimeout(timer) == IF timer = "armed" THEN "cleared" ELSE timer

\* createTask throws: the finally block runs and the promise rejects
createTaskRejects(error) ==
    requests' = [requests EXCEPT ![1].pc = "done", ![1].outcome = "rejected",
                                 ![1].error = error,
                                 ![1].timer = clearTimeout(requests[1].timer)]

\* fetch or response.text() rejects because the signal is aborted
fetchAborted ==
    /\ providerCallPending
    /\ requests[1].aborted
    /\ createTaskRejects(<<"AbortError">>)
    /\ UNCHANGED <<opportunities, offers, items, positions, checklists, events, response,
                   faults, policyRules, tasks, evidence, valuations, call, pool>>

\* fetch or response.text() rejects because the connection fails
fetchFails ==
    /\ providerCallPending
    /\ ~requests[1].aborted
    /\ createTaskRejects(<<"fetch failed">>)
    /\ UNCHANGED <<opportunities, offers, items, positions, checklists, events, response,
                   faults, policyRules, tasks, evidence, valuations, call, pool>>

\* await this.fetchImpl(...) resolves: status line and headers have arrived
responseArrives(ok) ==
    /\ providerCallPending
    /\ requests[1].pc = "fetch"
    /\ ~requests[1].aborted
    /\ requests' = [requests EXCEPT ![1].pc = "text", ![1].ok = ok]
    /\ UNCHANGED <<opportunities, offers, items, positions, checklists, events, response,
                   faults, policyRules, tasks, evidence, valuations, call, pool>>

\* await response.text() resolves; createTask from there to its end
createTaskText(responseText) ==
    /\ providerCallPending
    /\ requests[1].pc = "text"
    /\ ~requests[1].aborted
    /\ LET payload == parsedPayload(responseText)
           providerTaskId == extractProviderTaskId(payload)
       IN  IF ~requests[1].ok
           THEN createTaskRejects(<<"RentAHuman API error">>)
           ELSE IF isNull(providerTaskId) \/ providerTaskId = <<>>
           THEN requests' = [requests EXCEPT
                               ![1].pc = "done", ![1].outcome = "rejected",
                               ![1].payload = payload,
                               ![1].error = <<"RentAHuman API response missing task id">>,
                               ![1].timer = clearTimeout(requests[1].timer)]
           ELSE requests' = [requests EXCEPT
                               ![1].pc = "done", ![1].outcome = "resolved",
                               ![1].payload = payload,
                               ![1].providerTaskId = providerTaskId,
                               ![1].timer = clearTimeout(requests[1].timer)]
    /\ UNCHANGED <<opportunities, offers, items, positions, checklists, events, response,
                   faults, policyRules, tasks, evidence, valuations, call, pool>>

ProviderNext ==
    \/ \E type \in TaskTypes : createTaskFetch(type)
    \/ timeoutFires
    \/ fetchAborted
    \/ fetchFails
    \/ \E ok \in BOOLEAN : responseArrives(ok)
    \/ \E responseText \in ResponseTexts : createTaskText(responseText)

\* One call of createTask; the provider answers or not.
ProviderSpec == Init /\ [][ProviderNext]_vars

\* The timer fires when its time has passed, and fetch and response.text()
\* reject once the signal is aborted.
ProviderLiveSpec == ProviderSpec /\ WF_vars(timeoutFires) /\ WF_vars(fetchAborted)

\* ------------------------------------------------------------ evidence
\* The instants of the model, and the value of getTime() of an invalid date.
Instants == {1, 2}
NaN == 0

\* new Date(text).getTime(): the instant a datetime text denotes, NaN when it
\* denotes none; two spellings of the first instant, one of the second
getTime(text) ==
    CASE text = <<"2026-01-01T00:00:00Z">> -> 1
      [] text = <<"2026-01-01T00:00:00.000Z">> -> 1
      [] text = <<"2026-01-02T00:00:00.000Z">> -> 2
      [] OTHER -> NaN

\* Date.prototype.toISOString
toISOString(instant) ==
    IF instant = 1 THEN <<"2026-01-01T00:00:00.000Z">>
    ELSE <<"2026-01-02T00:00:00.000Z">>

\* createHash("sha256").update(text).digest("hex"), taken as injective
sha256Hex(text) == text

\* resolveEvidenceChecksum hashing the media reference alone
resolveEvidenceChecksum_UrlOnly(mediaUrl, capturedAt, providedChecksum) ==
    IF providedChecksum.type = "string" /\ Len(trim(providedChecksum.value)) > 0
    THEN toLowerCase(trim(providedChecksum.value))
    ELSE sha256Hex(mediaUrl)

\* resolveEvidenceChecksum
resolveEvidenceChecksum(mediaUrl, capturedAt, providedChecksum) ==
    IF providedChecksum.type = "string" /\ Len(trim(providedChecksum.value)) > 0
    THEN toLowerCase(trim(providedChecksum.value))
    ELSE sha256Hex(mediaUrl \o <<"|">> \o capturedAt)

\* AuthRepository.getTaskById
getTaskById(taskId) == {i \in DOMAIN tasks : i = taskId}

\* AuthRepository.createEvidenceRecord: the row it inserts; captured_at is the
\* instant the text denotes ($5::timestamptz), created_at the NOW() of the
\* insert, later for a later insert
createEvidenceRecord(input) ==
    [ id |-> Len(evidence) + 1,
      taskId |-> input.taskId,
      mediaUrl |-> input.mediaUrl,
      checksum |-> input.checksum,
      capturedAt |-> getTime(input.capturedAt),
      createdAt |-> Len(evidence) + 1 ]

\* ORDER BY created_at ASC
RECURSIVE orderByCreatedAt_Ascending(_)
orderByCreatedAt_Ascending(rows) ==
    IF rows = {} THEN <<>>
    ELSE LET oldest == CHOOSE r \in rows : \A q \in rows : r.createdAt <= q.createdAt
         IN  <<oldest>> \o orderByCreatedAt_Ascending(rows \ {oldest})

\* ORDER BY created_at DESC
RECURSIVE orderByCreatedAt(_)
orderByCreatedAt(rows) ==
    IF rows = {} THEN <<>>
    ELSE LET newest == CHOOSE r \in rows : \A q \in rows : q.createdAt <= r.createdAt
         IN  <<newest>> \o orderByCreatedAt(rows \ {newest})

\* AuthRepository.listEvidenceByTaskId
listEvidenceByTaskId(taskId) ==
    orderByCreatedAt({evidence[i] : i \in {j \in DOMAIN evidence : evidence[j].taskId = taskId}})

\* The API keys the evidence routes are checked with.
EvidenceApiKeys == {"admin-key", "operator-key", "reviewer-key"}

TaskIdParams == 0..(MaxTasks + 1)

EvidenceBody(mediaUrl, capturedAt, checksum) ==
    [mediaUrl |-> mediaUrl, capturedAt |-> capturedAt, checksum |-> checksum]

\* The evidence bodies requests are drawn from: a capture; the same one with
\* blanks around the media reference and a blank checksum; one with another
\* spelling of the capture instant; one of another media reference; one
\* without capturedAt; one with a checksum; and three invalid ones, with a
\* blank media reference, without media reference, and with no datetime.
EvidenceBodies ==
    { EvidenceBody(JsString(<<"a">>), JsString(<<"2026-01-01T00:00:00Z">>), UndefinedText),
      EvidenceBody(JsString(<<" ", "a", " ">>), JsString(<<"2026-01-01T00:00:00Z">>),
                   JsString(<<" ">>)),
      EvidenceBody(JsString(<<"a">>), JsString(<<"2026-01-01T00:00:00.000Z">>),
                   UndefinedText),
      EvidenceBody(JsString(<<"b">>), JsString(<<"2026-01-01T00:00:00Z">>), UndefinedText),
      EvidenceBody(JsString(<<"a">>), UndefinedText, UndefinedText),
      EvidenceBody(JsString(<<"a">>), JsString(<<"2026-01-01T00:00:00Z">>),
                   JsString(<<" ", "A", "B">>)),
      EvidenceBody(JsString(<<" ">>), JsString(<<"2026-01-01T00:00:00Z">>), UndefinedText),
      EvidenceBody(UndefinedText, JsString(<<"2026-01-01T00:00:00Z">>), UndefinedText),
      EvidenceBody(JsString(<<"a">>), JsString(<<"yesterday">>), UndefinedText) }

\* the reply of GET /tasks/:taskId/evidence
EvidenceReply(list) == [statusCode |-> 200, error |-> NoError, evidence |-> list]

\* POST /tasks/:taskId/evidence; now is the server's clock
PostTaskEvidence(apiKey, taskId, body, now) ==
    /\ Accept
    /\ UNCHANGED <<opportunities, offers, items, positions, checklists, policyRules,
                   tasks, valuations, call, requests, pool>>
    /\ IF requireRole({"admin", "operator"}, apiKey) # NoReply
       THEN /\ response' = requireRole({"admin", "operator"}, apiKey)
            /\ UNCHANGED <<evidence, events, faults>>
       ELSE IF ~parsePositiveId(taskId)
       THEN /\ response' = Reply(400, <<"Invalid taskId">>)
            /\ UNCHANGED <<evidence, events, faults>>
       ELSE IF getTaskById(taskId) = {}
       THEN /\ response' = Reply(404, <<"Task not found">>)
            /\ UNCHANGED <<evidence, events, faults>>
       ELSE LET mediaUrl == IF body.mediaUrl.type = "string"
                            THEN trim(body.mediaUrl.value) ELSE <<>>
                capturedAtRaw == IF body.capturedAt.type = "string"
                                 THEN body.capturedAt.value ELSE toISOString(now)
                checksum == resolveEvidenceChecksum(mediaUrl, capturedAtRaw, body.checksum)
            IN  IF mediaUrl = <<>>
                THEN /\ response' = Reply(400, <<"mediaUrl is required">>)
                     /\ UNCHANGED <<evidence, events, faults>>
                ELSE IF getTime(capturedAtRaw) = NaN
                THEN /\ response' = Reply(400, <<"capturedAt must be a valid ISO datetime">>)
                     /\ UNCHANGED <<evidence, events, faults>>
                ELSE \E fault \in Faults :
                     /\ MayThrow(fault)
                     /\ Len(evidence) < MaxEvidence
                     /\ IF fault = "write"
                        THEN /\ response' = InternalError
                             /\ UNCHANGED <<evidence, events, faults>>
                        ELSE /\ evidence' = Append(evidence,
                                     createEvidenceRecord(
                                         [ taskId |-> taskId, mediaUrl |-> mediaUrl,
                                           checksum |-> checksum,
                                           capturedAt |-> capturedAtRaw ]))
                             /\ IF fault = "audit"
                                THEN /\ response' = InternalError
                                     /\ faults' = faults + 1
                                     /\ UNCHANGED events
                                ELSE /\ writeEvent(
                                          [ eventType |-> "evidence.recorded",
                                            entityType |-> "task",
                                            entityId |-> ToString(taskId),
                                            payload |->
                                                [ actorUserId |-> authUser(apiKey).id,
                                                  evidenceId |-> Len(evidence) + 1,
                                                  checksum |-> checksum ] ])
                                     /\ response' = Reply(201, NoError)
                                     /\ UNCHANGED faults

\* GET /tasks/:taskId/evidence
GetTaskEvidence(apiKey, taskId) ==
    /\ Accept
    /\ UNCHANGED <<opportunities, offers, items, positions, checklists, policyRules,
                   tasks, valuations, call, requests, pool, evidence, events, faults>>
    /\ IF requireRole({"admin", "operator", "reviewer"}, apiKey) # NoReply
       THEN response' = requireRole({"admin", "operator", "reviewer"}, apiKey)
       ELSE IF ~parsePositiveId(taskId)
       THEN response' = Reply(400, <<"Invalid taskId">>)
       ELSE IF getTaskById(taskId) = {}
       THEN response' = Reply(404, <<"Task not found">>)
       ELSE response' = EvidenceReply(listEvidenceByTaskId(taskId))

\* the tasks evidence is captured for: one request body, two provider tasks
EvidenceNext ==
    \/ ReplySent
    \/ \E suffix \in ProviderSuffixes :
           PostTasks("operator-key", [type |-> "inspect", assignee |-> "runner"],
                     "returned", suffix)
    \/ \E apiKey \in EvidenceApiKeys, taskId \in TaskIdParams,
          body \in EvidenceBodies, now \in Instants :
           PostTaskEvidence(apiKey, taskId, body, now)
    \/ \E apiKey \in EvidenceApiKeys, taskId \in TaskIdParams :
           GetTaskEvidence(apiKey, taskId)

\* Evidence capture and listing, requests handled one at a time.
EvidenceSpec == Init /\ [][EvidenceNext]_vars

\* ------------------------------------------------------------ access
\* The rule an admin upserts next to the offer workflow.
AccessRuleInputs ==
    { [ platform |-> <<"a">>, action |-> <<"b">>,
        allowed |-> FALSE, reason |-> "blocked by terms of service" ] }

AccessNext ==
    \/ OfferNext
    \/ \E apiKey \in ApiKeys, payload \in AccessRuleInputs :
           PostAdminPolicyRules(apiKey, payload)

\* The role-gated routes that change state: the offer workflow and the
\* policy rule upsert, requests handled one at a time.
AccessSpec == Init /\ [][AccessNext]_vars

\* ------------------------------------------------------------ scoring
\* Score components and trade scores are counted in ten-thousandths, money in
\* cents; the inputs of the model keep every division exact.
One == 10000

\* the number -Infinity
NegativeInfinity == [type |-> "number", value |-> -1, finite |-> FALSE]

Min(a, b) == IF a <= b THEN a ELSE b
Max(a, b) == IF a >= b THEN a ELSE b

clamp(value, min, max) == Min(max, Max(min, value))

\* categoryLiquidity[category] ?? 0.5
categoryLiquidity(category) ==
    CASE category = "electronics" -> 7200
      [] category = "tools" -> 7000
      [] category = "collectibles" -> 5800
      [] category = "furniture" -> 4200
      [] category = "vehicles" -> 4500
      [] OTHER -> 5000

\* sourceStoryValue[source] ?? 0.5
sourceStoryValue(source) ==
    CASE source = "craigslist" -> 6200
      [] source = "offerup" -> 5500
      [] source = "ebay" -> 5000
      [] source = "etsy" -> 4600
      [] OTHER -> 5000

\* estimateTimeCost: expiresAt is absent, no datetime, or a datetime so many
\* days after Date.now()
estimateTimeCost(expiresAt) ==
    IF expiresAt.type # "date" THEN 4000
    ELSE clamp(One - clamp((expiresAt.daysUntilExpiry * One) \div 10, 0, One), 0, One)

\* buildScoreComponents; sellerRepScore is counted in ten-thousandths
buildScoreComponents(candidate, currentItemValueUsd) ==
    LET targetValueUsd == Max(candidate.targetValueUsd, 1)
        closeProb == clamp((IF candidate.sellerRepScore.type = "number"
                            THEN candidate.sellerRepScore.value
                            ELSE 25000) \div 5, 0, One)
    IN  [ valueGain |-> ((targetValueUsd - currentItemValueUsd) * One)
                            \div currentItemValueUsd,
          closeProb |-> closeProb,
          liquidity |-> categoryLiquidity(candidate.category),
          storyValue |-> sourceStoryValue(candidate.source),
          fraudRisk |-> clamp(One - closeProb
                                + (IF candidate.source = "craigslist" THEN 1000 ELSE 0),
                              0, One),
          timeCost |-> estimateTimeCost(candidate.expiresAt) ]

\* the weighted sum of computeTradeScore, in millionths
weightedSum(components) ==
    35 * components.valueGain + 20 * components.closeProb
      + 15 * components.liquidity + 10 * components.storyValue
      - 10 * components.fraudRisk - 10 * components.timeCost

\* Number(x.toFixed(4)) for x in millionths: the nearest ten-thousandth, the
\* one farther from zero when two are equally near
toFixed4(millionths) ==
    IF millionths >= 0
    THEN (millionths + 50) \div 100
    ELSE -((-millionths + 50) \div 100)

\* computeTradeScore cutting the weighted sum off after four decimals
computeTradeScore_Truncates(components) ==
    IF weightedSum(components) >= 0
    THEN weightedSum(components) \div 100
    ELSE -((-weightedSum(components)) \div 100)

\* computeTradeScore
computeTradeScore(components) == toFixed4(weightedSum(components))

\* Array.prototype.sort with the comparator (a, b) => a.tradeScore -
\* b.tradeScore: ascending
sortByTradeScore_Ascending(list) ==
    LET before(i, j) == \/ list[i].tradeScore < list[j].tradeScore
                        \/ list[i].tradeScore = list[j].tradeScore /\ i < j
        position(i) == 1 + Cardinality({j \in DOMAIN list : before(j, i)})
    IN  [k \in 1..Len(list) |-> list[CHOOSE i \in DOMAIN list : position(i) = k]]

\* Array.prototype.sort with the comparator (a, b) => b.tradeScore -
\* a.tradeScore: descending and stable, so an entry comes after the entries
\* of higher score and the earlier entries of equal score
sortByTradeScore(list) ==
    LET before(i, j) == \/ list[i].tradeScore > list[j].tradeScore
                        \/ list[i].tradeScore = list[j].tradeScore /\ i < j
        position(i) == 1 + Cardinality({j \in DOMAIN list : before(j, i)})
    IN  [k \in 1..Len(list) |-> list[CHOOSE i \in DOMAIN list : position(i) = k]]

\* Array.prototype.slice(0, end) for an integer end
slice(list, end) == SubSeq(list, 1, Min(Max(end, 0), Len(list)))

\* rankCandidates
rankCandidates(rawCandidates, currentItemValueUsd, limit) ==
    slice(sortByTradeScore(
              [ i \in 1..Len(rawCandidates) |->
                  [ opportunityId |-> rawCandidates[i].opportunityId,
                    targetValueUsd |-> rawCandidates[i].targetValueUsd,
                    components |-> buildScoreComponents(rawCandidates[i],
                                                        currentItemValueUsd),
                    tradeScore |-> computeTradeScore(
                                       buildScoreComponents(rawCandidates[i],
                                                            currentItemValueUsd)) ] ]),
          limit)

\* POST /scoring/rank: the limit it passes to rankCandidates,
\* Math.max(1, Math.min(limit, 50)), limit 10 when the body has no number
scoringLimit(limit) ==
    IF limit.type # "number" THEN 10
    ELSE IF ~limit.finite THEN (IF limit.value > 0 THEN 50 ELSE 1)
    ELSE Max(1, Min(limit.value, 50))

NoDate == [type |-> "undefined", daysUntilExpiry |-> 0]

\* A row of listScoringCandidates.
Candidate(opportunityId, targetValueUsd, source, category, sellerRepScore, expiresAt) ==
    [ opportunityId |-> opportunityId, targetValueUsd |-> targetValueUsd,
      source |-> source, category |-> category,
      sellerRepScore |-> sellerRepScore, expiresAt |-> expiresAt ]

\* n candidates of unlike value, the dearest neither first nor last
CandidateRun(n) ==
    [ i \in 1..n |->
        Candidate(i, 9000 + 500 * ((i * 7) % 11), "ebay", "tools", UndefinedNumber, NoDate) ]

\* The candidate lists rankings are drawn from: none; one; candidates that
\* differ in source, category, reputation and expiry; candidates of equal
\* score; and runs of 3, 50, 51 and 52 candidates.
CandidateLists ==
    { <<>>,
      <<Candidate(1, 12000, "craigslist", "electronics", JsNumber(40000), NoDate)>>,
      << Candidate(1, 9000, "etsy", "furniture", JsNumber(-10000), NoDate),
         Candidate(2, 15000, "craigslist", "electronics", JsNumber(60000),
                   [type |-> "date", daysUntilExpiry |-> 3]),
         Candidate(3, 0, "offerup", "vehicles", UndefinedNumber,
                   [type |-> "date", daysUntilExpiry |-> 20]),
         Candidate(4, 15000, "ebay", "collectibles", JsNumber(45000),
                   [type |-> "invalid", daysUntilExpiry |-> 0]) >>,
      << Candidate(1, 12000, "ebay", "tools", UndefinedNumber, NoDate),
         Candidate(2, 12000, "ebay", "tools", UndefinedNumber, NoDate),
         Candidate(3, 13000, "ebay", "tools", UndefinedNumber, NoDate) >>,
      CandidateRun(3), CandidateRun(50), CandidateRun(51), CandidateRun(52) }

\* The limits of the request body: integers, the infinities JSON.parse
\* yields for 1e999 and -1e999, and no limit.
ScoringLimits ==
    {JsNumber(n) : n \in {-1, 0, 1, 2, 3, 49, 50, 51, 200}}
        \cup {Infinity, NegativeInfinity, UndefinedNumber}

\* currentItemValueUsd, in cents
CurrentItemValues == {5000, 10000}

\* POST /scoring/rank from the candidates on: the ranking it replies
ScoringRank ==
    /\ ~call.done
    /\ call.input.operation = "rank"
    /\ call' = [call EXCEPT
                  !.result = rankCandidates(call.input.candidates,
                                            call.input.currentItemValueUsd,
                                            scoringLimit(call.input.limit)),
                  !.done = TRUE]
    /\ UNCHANGED <<opportunities, offers, items, positions, checklists, events, response,
                   faults, policyRules, tasks, evidence, valuations,
                   requests, pool>>

RankInit ==
    /\ opportunities = <<>>
    /\ offers = <<>>
    /\ items = <<>>
    /\ positions = <<>>
    /\ checklists = <<>>
    /\ events = <<>>
    /\ response = NoReply
    /\ faults = 0
    /\ policyRules = {}
    /\ tasks = <<>>
    /\ evidence = <<>>
    /\ valuations = <<>>
    /\ requests = <<>>
    /\ pool = NoPool
    /\ call \in { [ input |-> [ operation |-> "rank", candidates |-> candidates,
                                currentItemValueUsd |-> currentItemValueUsd,
                                limit |-> limit ],
                    result |-> <<>>, done |-> FALSE ] :
                    candidates \in CandidateLists,
                    currentItemValueUsd \in CurrentItemValues,
                    limit \in ScoringLimits }

RankNext == ScoringRank

\* Rankings of candidate lists.
RankSpec == RankInit /\ [][RankNext]_vars

\* ------------------------------------------------------------ rank route
\* POST /scoring/rank over the opportunities table.  A row of the table is
\* [status, candidate]; the rows are in the order of created_at, oldest
\* first.

\* POST /scoring/rank: limit, 10 when the body has no number
requestLimit(limit) == IF limit.type # "number" THEN JsNumber(10) ELSE limit

\* listScoringCandidates: boundedLimit = Math.max(1, Math.min(limit, 200))
boundedLimit(limit) ==
    IF ~limit.finite THEN (IF limit.value > 0 THEN 200 ELSE 1)
    ELSE Max(1, Min(limit.value, 200))

\* WHERE status IN ('sourcing', 'screened'): the rows, oldest first
RECURSIVE scoringEligible(_)
scoringEligible(table) ==
    IF table = <<>> THEN <<>>
    ELSE (IF table[1].status \in {"sourcing", "screened"} THEN <<table[1]>> ELSE <<>>)
         \o scoringEligible(Tail(table))

\* ORDER BY created_at DESC
newestFirst(rows) == [i \in 1..Len(rows) |-> rows[Len(rows) + 1 - i]]

\* AuthRepository.listScoringCandidates
listScoringCandidates(table, limit) ==
    LET rows == slice(newestFirst(scoringEligible(table)), boundedLimit(limit))
    IN  [i \in 1..Len(rows) |-> rows[i].candidate]

\* a table: the candidates in the order of creation, each with the status
\* of the same place of statuses (taken round)
RankTable(candidates, statuses) ==
    [ i \in 1..Len(candidates) |->
        [ status |-> statuses[((i - 1) % Len(statuses)) + 1],
          candidate |-> candidates[i] ] ]

\* The tables rank requests are drawn from: the lists of four, of three
\* with two of equal score and of three and five of unlike value, with
\* every row eligible or with every third row rejected.
RankTables ==
    { RankTable(candidates, statuses) :
        candidates \in
            { << Candidate(1, 9000, "etsy", "furniture", JsNumber(-10000), NoDate),
                 Candidate(2, 15000, "craigslist", "electronics", JsNumber(60000),
                           [type |-> "date", daysUntilExpiry |-> 3]),
                 Candidate(3, 0, "offerup", "vehicles", UndefinedNumber,
                           [type |-> "date", daysUntilExpiry |-> 20]),
                 Candidate(4, 15000, "ebay", "collectibles", JsNumber(45000),
                           [type |-> "invalid", daysUntilExpiry |-> 0]) >>,
               << Candidate(1, 12000, "ebay", "tools", UndefinedNumber, NoDate),
                  Candidate(2, 12000, "ebay", "tools", UndefinedNumber, NoDate),
                  Candidate(3, 13000, "ebay", "tools", UndefinedNumber, NoDate) >>,
               CandidateRun(3), CandidateRun(5) },
        statuses \in { <<"sourcing", "screened">>,
                       <<"screened", "sourcing", "rejected">> } }

\* The limits of the rank requests.
RankLimits == {JsNumber(n) : n \in {-1, 0, 1, 2, 3, 50}} \cup {UndefinedNumber}

\* POST /scoring/rank past requireRole and the check of currentItemValueUsd:
\* the ranking it replies
PostScoringRank ==
    /\ ~call.done
    /\ call.input.operation = "rankRoute"
    /\ call' = [call EXCEPT
                  !.result = rankCandidates(
                                 listScoringCandidates(call.input.table,
                                                       requestLimit(call.input.limit)),
                                 call.input.currentItemValueUsd,
                                 scoringLimit(call.input.limit)),
                  !.done = TRUE]
    /\ UNCHANGED <<opportunities, offers, items, positions, checklists, events, response,
                   faults, policyRules, tasks, evidence, valuations,
                   requests, pool>>

RankRouteInit ==
    /\ opportunities = <<>>
    /\ offers = <<>>
    /\ items = <<>>
    /\ positions = <<>>
    /\ checklists = <<>>
    /\ events = <<>>
    /\ response = NoReply
    /\ faults = 0
    /\ policyRules = {}
    /\ tasks = <<>>
    /\ evidence = <<>>
    /\ valuations = <<>>
    /\ requests = <<>>
    /\ pool = NoPool
    /\ call \in { [ input |-> [ operation |-> "rankRoute", table |-> table,
                                currentItemValueUsd |-> currentItemValueUsd,
                                limit |-> limit ],
                    result |-> <<>>, done |-> FALSE ] :
                    table \in RankTables,
                    currentItemValueUsd \in CurrentItemValues,
                    limit \in RankLimits }

RankRouteNext == PostScoringRank

\* Rank requests over tables of opportunities.
RankRouteSpec == RankRouteInit /\ [][RankRouteNext]_vars

\* ------------------------------------------------------------ trade score
\* TradeScoreComponents: the component tuples a trade score is computed for, in
\* ten-thousandths; among them the tuple of the scoring test, tuples whose
\* weighted sum has more than four decimals, and tuples with a negative sum
ComponentTuples ==
    [ valueGain : {0, 3333, 5000, 10000},
      closeProb : {0, 6667, 8000},
      liquidity : {3000, 7000},
      storyValue : {4000, 6000},
      fraudRisk : {2000, 9999},
      timeCost : {4000, 10000} ]

\* computeTradeScore(components), as rankCandidates and the tests call it
ScoringTradeScore ==
    /\ ~call.done
    /\ call.input.operation = "score"
    /\ call' = [call EXCEPT !.result = computeTradeScore(call.input.components),
                            !.done = TRUE]
    /\ UNCHANGED <<opportunities, offers, items, positions, checklists, events, response,
                   faults, policyRules, tasks, evidence, valuations,
                   requests, pool>>

TradeScoreInit ==
    /\ opportunities = <<>>
    /\ offers = <<>>
    /\ items = <<>>
    /\ positions = <<>>
    /\ checklists = <<>>
    /\ events = <<>>
    /\ response = NoReply
    /\ faults = 0
    /\ policyRules = {}
    /\ tasks = <<>>
    /\ evidence = <<>>
    /\ valuations = <<>>
    /\ requests = <<>>
    /\ pool = NoPool
    /\ call \in { [ input |-> [operation |-> "score", components |-> components],
                    result |-> <<>>, done |-> FALSE ] :
                    components \in ComponentTuples }

TradeScoreNext == ScoringTradeScore

\* computeTradeScore applied to a component tuple.
TradeScoreSpec == TradeScoreInit /\ [][TradeScoreNext]_vars

\* ------------------------------------------------------------ valuation
\* Prices are held in mills: a request carries any number of mills, a comp
\* kept by parseValuationInput a whole number of cents (a multiple of 10).

\* body.comps: an array of comps, or no array
JsArray(elements) == [isArray |-> TRUE, elements |-> elements]
NoArray == [isArray |-> FALSE, elements |-> <<>>]

\* parseValuationInput: the comps kept, comp && typeof comp.priceUsd ===
\* "number" && comp.priceUsd > 0, each as Number(comp.priceUsd.toFixed(2));
\* a body without an array of comps gives none
parseComps(comps) ==
    IF ~comps.isArray THEN <<>>
    ELSE LET kept == SelectSeq(comps.elements, LAMBDA comp :
                                   comp.type = "number" /\ comp.value > 0)
         IN  [i \in DOMAIN kept |->
                 IF kept[i].finite THEN JsNumber(roundToCents(kept[i].value) * 10)
                 ELSE kept[i]]

\* parseValuationInput
parseValuationInput(body) ==
    LET title == IF body.title.type = "string" THEN trim(body.title.value) ELSE <<>>
        category == IF body.category.type = "string"
                    THEN normalizeText(body.category.value) ELSE <<>>
        baseValueUsd == IF body.baseValueUsd.type = "number"
                        THEN body.baseValueUsd ELSE UndefinedNumber
        itemId == IF body.itemId.type = "number" THEN body.itemId ELSE UndefinedNumber
        comps == parseComps(body.comps)
    IN  IF title = <<>> \/ category = <<>>
        THEN [valid |-> FALSE, error |-> <<"title and category are required">>]
        ELSE IF /\ baseValueUsd.type = "undefined" \/ baseValueUsd.value <= 0
                /\ Len(comps) = 0
        THEN [ valid |-> FALSE,
               error |-> <<"Provide at least one positive comp or a positive baseValueUsd">> ]
        ELSE [ valid |-> TRUE,
               value |-> [ itemId |-> itemId, title |-> title, category |-> category,
                           condition |-> IF body.condition.type = "string"
                                         THEN normalizeText(body.condition.value)
                                         ELSE NULL,
                           baseValueUsd |-> baseValueUsd, comps |-> comps ] ]

\* computeValuation: the comp values kept, Number.isFinite(priceUsd) &&
\* priceUsd > 0
compValues(input) ==
    LET kept == SelectSeq(input.comps, LAMBDA comp :
                              comp.type = "number" /\ comp.finite /\ comp.value > 0)
    IN  [i \in DOMAIN kept |-> kept[i].value]

\* computeValuation: Number.isFinite(input.baseValueUsd) &&
\* (input.baseValueUsd ?? 0) > 0
hasBaseValue(input) ==
    /\ input.baseValueUsd.type = "number"
    /\ input.baseValueUsd.finite
    /\ input.baseValueUsd.value > 0

\* computeValuation throws Error("At least one positive comp or base value
\* is required")
computeValuationThrows(input) == Len(compValues(input)) = 0 /\ ~hasBaseValue(input)

\* the reply of fastify's default error handler to the Error computeValuation
\* throws, which carries its message
ValuationError ==
    [ statusCode |-> 500, error |-> <<"Internal Server Error">>,
      message |-> <<"At least one positive comp or base value is required">> ]

\* [...values].sort((a, b) => a - b)
RECURSIVE sortAscending(_)
sortAscending(values) ==
    IF values = <<>> THEN <<>>
    ELSE LET sorted == sortAscending(SubSeq(values, 1, Len(values) - 1))
             last == values[Len(values)]
             k == Cardinality({i \in 1..Len(sorted) : sorted[i] <= last})
         IN  SubSeq(sorted, 1, k) \o <<last>> \o SubSeq(sorted, k + 1, Len(sorted))

\* median taking the upper of the two middle values of an even count
twiceMedian_UpperMiddle(values) ==
    LET sorted == sortAscending(values)
        middle == Len(sorted) \div 2
    IN  2 * sorted[middle + 1]

\* median(values), doubled so that the mean of two middle values is whole
twiceMedian(values) ==
    LET sorted == sortAscending(values)
        middle == Len(sorted) \div 2
    IN  IF Len(sorted) % 2 = 0
        THEN sorted[middle] + sorted[middle + 1]
        ELSE 2 * sorted[middle + 1]

\* values.reduce((sum, value) => sum + value, 0)
RECURSIVE sumOf(_)
sumOf(values) == IF values = <<>> THEN 0 ELSE Head(values) + sumOf(Tail(values))

\* computeValuation: estimatedRaw, in two-hundredths of a mill
estimatedRaw(input) ==
    LET values == compValues(input)
        twiceCompMedian == IF Len(values) > 0 THEN twiceMedian(values)
                           ELSE 2 * input.baseValueUsd.value
    IN  IF hasBaseValue(input)
        THEN 70 * input.baseValueUsd.value + 65 * twiceCompMedian
        ELSE 100 * twiceCompMedian

\* the greatest common divisor, by which standardDeviation(values) / mean is
\* computed on smaller numbers without changing it
RECURSIVE gcd(_, _)
gcd(a, b) == IF b = 0 THEN a ELSE gcd(b, a % b)

RECURSIVE gcdOf(_)
gcdOf(values) == IF values = <<>> THEN 0 ELSE gcd(Head(values), gcdOf(Tail(values)))

\* computeValuation: Number(clamp(confidenceRaw, 0.1, 0.95).toFixed(2)), in
\* hundredths.  With n values of sum S and sum of squares Q the dispersion
\* standardDeviation / mean is sqrt(n*Q - S*S) / S, so the result is the
\* greatest k in 10..95 with 70 * sqrt(n*Q - S*S) <= (2*A + 1 - 2*k) * S for
\* A = 45 + 5*min(n, 10) + 5*hasBaseValue, and 10 if there is none; every
\* smaller k in 10..95 satisfies it too, so the k that do are counted.  The
\* two sides are compared squared; a right side of 46341 or more has a square
\* above every 32-bit left side.
confidenceScore(input) ==
    LET values == compValues(input)
        n == Len(values)
        A == 45 + 5 * Min(n, 10) + (IF hasBaseValue(input) THEN 5 ELSE 0)
        g == gcdOf(values)
        scaled == [i \in DOMAIN values |-> values[i] \div g]
        S == sumOf(scaled)
        D == IF n < 2 THEN 0
             ELSE n * sumOf([i \in DOMAIN scaled |-> scaled[i] * scaled[i]]) - S * S
        reached == {k \in 10..95 :
                      /\ 2 * A + 1 - 2 * k >= 0
                      /\ \/ (2 * A + 1 - 2 * k) * S >= 46341
                         \/ 4900 * D <= ((2 * A + 1 - 2 * k) * S)
                                           * ((2 * A + 1 - 2 * k) * S)}
    IN  IF n < 2 THEN Min(A, 95)
        ELSE Max(10, 9 + Cardinality(reached))

\* computeValuation for an input it does not throw on; the estimated value
\* Number(estimatedRaw.toFixed(2)) in cents
computeValuation(input) ==
    [ estimatedValueUsd |-> (estimatedRaw(input) + 1000) \div 2000,
      confidenceScore |-> confidenceScore(input),
      modelVersion |-> "rules-v1" ]

\* The most valuations recorded.
MaxValuations == 2

\* AuthRepository.recordValuation: no item id was given (!itemId), so an
\* item is inserted
insertsItem(input) == input.itemId.type = "undefined" \/ input.itemId.value = 0

\* AuthRepository.recordValuation: the insert into item_valuations violates
\* the reference item_id REFERENCES items(id)
itemMissing(input) == ~insertsItem(input) /\ input.itemId.value \notin DOMAIN items

\* AuthRepository.recordValuation: the id of the item valued
valuedItemId(input) == IF insertsItem(input) THEN Len(items) + 1 ELSE input.itemId.value

\* AuthRepository.recordValuation: the items table after INSERT INTO items or
\* UPDATE items SET est_value_usd
recordValuationItems(input) ==
    IF insertsItem(input)
    THEN Append(items, [ title |-> input.title, category |-> input.category,
                         condition |-> input.condition, location |-> NULL,
                         estValueUsd |-> input.estimatedValueUsd ])
    ELSE [items EXCEPT ![input.itemId.value].estValueUsd = input.estimatedValueUsd]

\* AuthRepository.recordValuation: the row inserted into item_valuations
recordValuationRow(input) ==
    [ itemId |-> valuedItemId(input),
      modelVersion |-> input.modelVersion,
      estimatedValueUsd |-> input.estimatedValueUsd,
      confidenceScore |-> input.confidenceScore,
      inputComps |-> input.comps ]

ValuationApiKeys == {"operator-key", "reviewer-key", "unknown-key"}

\* ValuationRequestBody
ValuationBody(title, baseValueUsd, comps, itemId) ==
    [ title |-> title, category |-> JsString(<<"T", "o", "o", "l", "s">>),
      condition |-> UndefinedText, baseValueUsd |-> baseValueUsd, comps |-> comps,
      itemId |-> itemId ]

\* The bodies POST /valuations is drawn from, prices in mills: without and
\* with a title; without a base value, with a base value of 0, of -5.00, of
\* 200.00 and of Infinity; without comps, with comps of 0, of -1.00, of
\* 0.004, of Infinity, of 100.00, 120.00 and 110.00, of 100.00, 0 and 120.00
\* and of 90.00 and 10.00; for a new item, for item 1 and for item 5.
ValuationBodies ==
    { ValuationBody(title, baseValueUsd, comps, itemId) :
        title \in {UndefinedText, JsString(<<"T">>)},
        baseValueUsd \in { UndefinedNumber, JsNumber(0), JsNumber(-5000),
                           JsNumber(200000), Infinity },
        comps \in { NoArray, JsArray(<<>>), JsArray(<<JsNumber(0)>>),
                    JsArray(<<JsNumber(-1000)>>), JsArray(<<JsNumber(4)>>),
                    JsArray(<<Infinity>>),
                    JsArray(<<JsNumber(100000), JsNumber(120000), JsNumber(110000)>>),
                    JsArray(<<JsNumber(100000), JsNumber(0), JsNumber(120000)>>),
                    JsArray(<<JsNumber(90000), JsNumber(10000)>>) },
        itemId \in {UndefinedNumber, JsNumber(1), JsNumber(5)} }

\* POST /valuations
PostValuations(apiKey, body) ==
    /\ Accept
    /\ UNCHANGED <<opportunities, offers, positions, checklists, policyRules, tasks,
                   evidence, call, requests, pool>>
    /\ IF requireRole({"admin", "operator"}, apiKey) # NoReply
       THEN /\ response' = requireRole({"admin", "operator"}, apiKey)
            /\ UNCHANGED <<items, valuations, events, faults>>
       ELSE IF ~parseValuationInput(body).valid
       THEN /\ response' = Reply(400, parseValuationInput(body).error)
            /\ UNCHANGED <<items, valuations, events, faults>>
       ELSE IF computeValuationThrows(parseValuationInput(body).value)
       THEN /\ response' = ValuationError
            /\ UNCHANGED <<items, valuations, events, faults>>
       ELSE LET parsed == parseValuationInput(body).value
                valuation == computeValuation(parsed)
                input == [ itemId |-> parsed.itemId, title |-> parsed.title,
                           category |-> parsed.category, condition |-> parsed.condition,
                           estimatedValueUsd |-> valuation.estimatedValueUsd,
                           confidenceScore |-> valuation.confidenceScore,
                           modelVersion |-> valuation.modelVersion,
                           comps |-> parsed.comps ]
            IN  \E fault \in Faults :
                /\ MayThrow(fault)
                /\ IF fault = "write" \/ itemMissing(input)
                   THEN /\ response' = InternalError
                        /\ UNCHANGED <<items, valuations, events, faults>>
                   ELSE /\ Len(valuations) < MaxValuations
                        /\ items' = recordValuationItems(input)
                        /\ valuations' = Append(valuations, recordValuationRow(input))
                        /\ IF fault = "audit"
                           THEN /\ response' = InternalError
                                /\ faults' = faults + 1
                                /\ UNCHANGED events
                           ELSE /\ writeEvent(
                                     [ eventType |-> "valuation.recorded",
                                       entityType |-> "item",
                                       entityId |-> ToString(valuedItemId(input)),
                                       payload |-> [ actorUserId |-> authUser(apiKey).id,
                                                     role |-> authUser(apiKey).role,
                                                     valuationId |-> Len(valuations) + 1,
                                                     modelVersion |-> valuation.modelVersion ] ])
                                /\ response' = Reply(201, NoError)
                                /\ UNCHANGED faults

ValuationNext ==
    \/ ReplySent
    \/ \E apiKey \in ValuationApiKeys, body \in ValuationBodies :
           PostValuations(apiKey, body)

\* Valuations requested and recorded, requests handled one at a time.
ValuationSpec == Init /\ [][ValuationNext]_vars

\* ------------------------------------------------------------ valuation race
\* Two recordValuation calls running concurrently on the pool.  Every
\* statement of recordValuation is a pool.query of its own: the pool hands
\* the statement to the client released last, or connects a client when none
\* is idle, and takes the client back when the statement has run.  A client
\* is [state, pending]: state "idle" (no transaction open, a statement
\* commits at once), "tx" (BEGIN has run on it) or "aborted" (a statement
\* failed inside its transaction); pending holds the writes of its open
\* transaction.  A call is [input, pc, client, itemId, outcome]: pc the
\* statement it awaits next, client the client running that statement (0:
\* not handed to a client yet).

\* a recordValuation call
ValuationCall(input) ==
    [ input |-> input, pc |-> "BEGIN", client |-> 0, itemId |-> 0,
      outcome |-> "pending" ]

\* RecordValuationInput
RecordValuationInput(itemId, estimatedValueUsd) ==
    [ itemId |-> itemId, title |-> <<"T">>, category |-> <<"T", "o", "o", "l", "s">>,
      condition |-> NULL, estimatedValueUsd |-> estimatedValueUsd,
      confidenceScore |-> 50, modelVersion |-> <<"v", "1">>, comps |-> <<>> ]

\* The concurrent calls: the first values a new item at 150.00, the second
\* revalues item 1 at 250.00 or item 5, which is not stored, at 350.00.
\* (One call only inserts an item, so that ids follow the rows of items.)
FirstValuationInputs == { RecordValuationInput(UndefinedNumber, 15000) }
SecondValuationInputs == { RecordValuationInput(JsNumber(1), 25000),
                           RecordValuationInput(JsNumber(5), 35000) }

\* the body of the valuation requested before the calls: a new item of base
\* value 200.00
EarlierValuationBody ==
    ValuationBody(JsString(<<"T">>), JsNumber(200000), NoArray, UndefinedNumber)

\* two recordValuation calls start together
ValuationCallsArrive(first, second) ==
    /\ Accept
    /\ requests = <<>>
    /\ requests' = << ValuationCall(first), ValuationCall(second) >>
    /\ UNCHANGED <<opportunities, offers, items, positions, checklists, events, response,
                   faults, policyRules, tasks, evidence, valuations, call, pool>>

\* pool.query: the statement is handed to a client
poolQuery(r) ==
    /\ r \in DOMAIN requests
    /\ requests[r].pc # "done"
    /\ requests[r].client = 0
    /\ IF pool.idle # <<>>
       THEN /\ requests' = [requests EXCEPT ![r].client = pool.idle[Len(pool.idle)]]
            /\ pool' = [pool EXCEPT !.idle = SubSeq(pool.idle, 1, Len(pool.idle) - 1)]
       ELSE /\ Len(pool.clients) < MaxClients
            /\ requests' = [requests EXCEPT ![r].client = Len(pool.clients) + 1]
            /\ pool' = [pool EXCEPT
                          !.clients = Append(pool.clients,
                                             [state |-> "idle", pending |-> <<>>])]
    /\ UNCHANGED <<opportunities, offers, items, positions, checklists, events, response,
                   faults, policyRules, tasks, evidence, valuations, call>>

\* the items table after a write of recordValuation: INSERT INTO items or
\* UPDATE items SET est_value_usd WHERE id
writeItems(table, input) ==
    IF insertsItem(input)
    THEN Append(table, [ title |-> input.title, category |-> input.category,
                         condition |-> input.condition, location |-> NULL,
                         estValueUsd |-> input.estimatedValueUsd ])
    ELSE IF input.itemId.value \in DOMAIN table
    THEN [table EXCEPT ![input.itemId.value].estValueUsd = input.estimatedValueUsd]
    ELSE table

\* the tables after the pending writes of a transaction are committed
RECURSIVE committedItems(_, _)
committedItems(table, pending) ==
    IF pending = <<>> THEN table
    ELSE committedItems(IF pending[1].table = "items"
                        THEN writeItems(table, pending[1].input)
                        ELSE table,
                        Tail(pending))

RECURSIVE committedValuations(_, _)
committedValuations(table, pending) ==
    IF pending = <<>> THEN table
    ELSE committedValuations(IF pending[1].table = "item_valuations"
                             THEN Append(table, pending[1].row)
                             ELSE table,
                             Tail(pending))

\* the items a statement run by client c sees: the committed rows and the
\* rows its own transaction has inserted
visibleItems(c) == committedItems(items, pool.clients[c].pending)

\* the pool takes the client back; the call goes on to its next statement
released(r, state, pending, after) ==
    /\ pool' = [ clients |-> [pool.clients EXCEPT
                                 ![requests[r].client] =
                                     [state |-> state, pending |-> pending]],
                 idle |-> Append(pool.idle, requests[r].client) ]
    /\ requests' = [requests EXCEPT ![r] = after]

\* the call once a statement has run: the statement it awaits next
awaits(r, pc) == [requests[r] EXCEPT !.client = 0, !.pc = pc]

\* the call once its last statement has run
settled(r, outcome) ==
    [requests[r] EXCEPT !.client = 0, !.pc = "done", !.outcome = outcome]

\* recordValuation: BEGIN has run.  On a client whose transaction is aborted
\* it fails, outside the try block.
recordValuationBegin(r) ==
    /\ r \in DOMAIN requests
    /\ requests[r].pc = "BEGIN"
    /\ requests[r].client # 0
    /\ LET client == pool.clients[requests[r].client]
       IN  IF client.state = "aborted"
           THEN released(r, "aborted", client.pending, settled(r, "rejected"))
           ELSE released(r, "tx", client.pending, awaits(r, "items"))
    /\ UNCHANGED <<opportunities, offers, items, positions, checklists, events, response,
                   faults, policyRules, tasks, evidence, valuations, call>>

\* recordValuation: INSERT INTO items or UPDATE items has run
recordValuationItem(r) ==
    /\ r \in DOMAIN requests
    /\ requests[r].pc = "items"
    /\ requests[r].client # 0
    /\ LET client == pool.clients[requests[r].client]
           input == requests[r].input
           written == [awaits(r, "item_valuations") EXCEPT !.itemId = valuedItemId(input)]
       IN  IF client.state = "aborted"
           THEN /\ released(r, "aborted", client.pending, awaits(r, "ROLLBACK"))
                /\ UNCHANGED items
           ELSE IF client.state = "tx"
           THEN /\ released(r, "tx",
                            Append(client.pending, [table |-> "items", input |-> input]),
                            written)
                /\ UNCHANGED items
           ELSE /\ released(r, "idle", client.pending, written)
                /\ items' = writeItems(items, input)
    /\ UNCHANGED <<opportunities, offers, positions, checklists, events, response,
                   faults, policyRules, tasks, evidence, valuations, call>>

\* recordValuation: INSERT INTO item_valuations has run.  It fails when the
\* client does not see the item (item_id REFERENCES items(id)).
recordValuationInsert(r) ==
    /\ r \in DOMAIN requests
    /\ requests[r].pc = "item_valuations"
    /\ requests[r].client # 0
    /\ LET client == pool.clients[requests[r].client]
           input == requests[r].input
           itemId == IF requests[r].itemId \in DOMAIN visibleItems(requests[r].client)
                     THEN requests[r].itemId ELSE 0
           row == [ itemId |-> itemId,
                    modelVersion |-> input.modelVersion,
                    estimatedValueUsd |-> input.estimatedValueUsd,
                    confidenceScore |-> input.confidenceScore,
                    inputComps |-> input.comps ]
       IN  IF client.state = "aborted"
           THEN /\ released(r, "aborted", client.pending, awaits(r, "ROLLBACK"))
                /\ UNCHANGED valuations
           ELSE IF itemId = 0
           THEN /\ released(r, IF client.state = "tx" THEN "aborted" ELSE "idle",
                            client.pending, awaits(r, "ROLLBACK"))
                /\ UNCHANGED valuations
           ELSE IF client.state = "tx"
           THEN /\ released(r, "tx",
                            Append(client.pending,
                                   [table |-> "item_valuations", input |-> input,
                                    row |-> row]), awaits(r, "COMMIT"))
                /\ UNCHANGED valuations
           ELSE /\ released(r, "idle", client.pending, awaits(r, "COMMIT"))
                /\ valuations' = Append(valuations, row)
    /\ UNCHANGED <<opportunities, offers, items, positions, checklists, events, response,
                   faults, policyRules, tasks, evidence, call>>

\* recordValuation: COMMIT has run on some client, and the call resolves
recordValuationCommit(r) ==
    /\ r \in DOMAIN requests
    /\ requests[r].pc = "COMMIT"
    /\ requests[r].client # 0
    /\ LET client == pool.clients[requests[r].client]
       IN  /\ released(r, "idle", <<>>, settled(r, "resolved"))
           /\ IF client.state = "tx"
              THEN /\ items' = committedItems(items, client.pending)
                   /\ valuations' = committedValuations(valuations, client.pending)
              ELSE UNCHANGED <<items, valuations>>
    /\ UNCHANGED <<opportunities, offers, positions, checklists, events, response,
                   faults, policyRules, tasks, evidence, call>>

\* recordValuation: ROLLBACK has run on some client, and the call rejects
recordValuationRollback(r) ==
    /\ r \in DOMAIN requests
    /\ requests[r].pc = "ROLLBACK"
    /\ requests[r].client # 0
    /\ released(r, "idle", <<>>, settled(r, "rejected"))
    /\ UNCHANGED <<opportunities, offers, items, positions, checklists, events, response,
                   faults, policyRules, tasks, evidence, valuations, call>>

ValuationRaceNext ==
    \/ /\ requests = <<>>
       /\ \/ ReplySent
          \/ PostValuations("operator-key", EarlierValuationBody)
    \/ \E first \in FirstValuationInputs, second \in SecondValuationInputs :
           ValuationCallsArrive(first, second)
    \/ \E r \in {1, 2} :
           \/ poolQuery(r)
           \/ recordValuationBegin(r)
           \/ recordValuationItem(r)
           \/ recordValuationInsert(r)
           \/ recordValuationCommit(r)
           \/ recordValuationRollback(r)

\* Perhaps an item is valued, then two recordValuation calls run
\* concurrently on the pool.
ValuationRaceSpec == Init /\ [][ValuationRaceNext]_vars

\* ------------------------------------------------------------ estimate
\* ValuationInput: the inputs computeValuation is called with, prices in
\* mills: without a base value and with one of 0, of -5.00, of 200.00 and of
\* 0.333; with no comp, one, two, three, four and five comps, sorted and
\* not, with equal comps, and with comps of 0 and below among them
ValuationInputs ==
    [ baseValueUsd : {UndefinedNumber, JsNumber(0), JsNumber(-5000), JsNumber(200000),
                      JsNumber(333)},
      comps : { [i \in DOMAIN prices |-> JsNumber(prices[i])] :
                  prices \in { <<>>, <<0>>, <<100000>>, <<4>>,
                               <<90000, 10000>>, <<10000, 10010>>, <<120000, 120000>>,
                               <<100000, 120000, 110000>>, <<100000, 0, 120000>>,
                               <<-1000, 0>>,
                               <<70000, 10000, 40000, 20000>>,
                               <<30000, 30000, 10000, 50000>>,
                               <<50000, 10000, 40000, 20000, 30000>> } } ]

\* computeValuation(input): the result it returns, or the Error it throws
ValuationCompute ==
    /\ ~call.done
    /\ call.input.operation = "valuation"
    /\ call' = [call EXCEPT
                  !.result = IF computeValuationThrows(call.input.input)
                             THEN [thrown |-> TRUE, value |-> <<>>]
                             ELSE [ thrown |-> FALSE,
                                    value |-> computeValuation(call.input.input) ],
                  !.done = TRUE]
    /\ UNCHANGED <<opportunities, offers, items, positions, checklists, events, response,
                   faults, policyRules, tasks, evidence, valuations,
                   requests, pool>>

EstimateInit ==
    /\ opportunities = <<>>
    /\ offers = <<>>
    /\ items = <<>>
    /\ positions = <<>>
    /\ checklists = <<>>
    /\ events = <<>>
    /\ response = NoReply
    /\ faults = 0
    /\ policyRules = {}
    /\ tasks = <<>>
    /\ evidence = <<>>
    /\ valuations = <<>>
    /\ requests = <<>>
    /\ pool = NoPool
    /\ call \in { [ input |-> [operation |-> "valuation", input |-> input],
                    result |-> <<>>, done |-> FALSE ] :
                    input \in ValuationInputs }

EstimateNext == ValuationCompute

\* computeValuation applied to a valuation input.
EstimateSpec == EstimateInit /\ [][EstimateNext]_vars

\* ------------------------------------------------------------ simulation
\* runTradeSimulation.  Money is held in cents, offerQuality,
\* closeProbability and valueGainPct in ten-thousandths; a draw is held as
\* its numerator state - 1 over 2147483646.  Rounding is done on the exact
\* value; where the exact value lies half-way between two results the
\* double the code rounds may lie on either side, and both are taken.

\* createRng: the modulus 2147483647 and the multiplier 16807
RngModulus == 2147483647
RngMultiplier == 16807

\* a % n of JavaScript: the sign of the result is the sign of a
remainder(a, n) == IF a >= 0 THEN a % n ELSE -((-a) % n)

\* createRng: the state after seeding
createRng(seed) ==
    LET state == remainder(seed, RngModulus)
    IN  IF state <= 0 THEN state + 2147483646 ELSE state

\* random(): the state after a draw, (state * 16807) % 2147483647.  The
\* product is taken in two parts that stay below 2^31:
\* 2147483647 = 127773 * 16807 + 2836.
random(state) ==
    LET low == RngMultiplier * (state % 127773) - 2836 * (state \div 127773)
    IN  IF low < 0 THEN low + RngModulus ELSE low

\* the least numerator of a draw for which numerator * n / 2147483646 rounds
\* to j or more: the ceiling of (2j - 1) * 1073741823 / n, with
\* 1073741823 = whole * n + rest
roundsTo(j, n) ==
    LET whole == 1073741823 \div n
        rest == 1073741823 % n
    IN  (2 * j - 1) * whole + ((2 * j - 1) * rest + n - 1) \div n

\* Number((numerator / 2147483646 * n).toFixed(0)) for n = 10000 and n = 5500
scaledDraw(numerator, n) ==
    LET estimate == numerator \div (2147483646 \div n)
        near == {j \in (estimate - 2)..(estimate + 2) :
                    j = 0 \/ (j \in 1..n /\ roundsTo(j, n) <= numerator)}
    IN  CHOOSE j \in near : \A k \in near : k <= j

\* Number(x.toFixed(...)) of a value held in hundredths of the unit it is
\* rounded to: the magnitude is rounded, a half upwards (half = 1) or
\* downwards (half = 0)
toFixedHundredths(x, half) ==
    IF x >= 0 THEN (x + 49 + half) \div 100 ELSE -((-x + 49 + half) \div 100)

\* runTradeSimulation: one pass of the loop, from the state of the
\* generator and the expected value (cents) before it
scenario(index, state, expectedValue, halfGain, halfCent) ==
    LET first == random(state)
        second == random(first)
        offerQuality == scaledDraw(first - 1, 10000)
        closeProbability == 3500 + scaledDraw(second - 1, 5500)
        valueGainPct == toFixedHundredths(-80000 + offerQuality * 95, halfGain)
        product == valueGainPct * closeProbability
        whole == expectedValue * (product \div 10000)
        part == expectedValue * (product % 10000)
        halfWay == ((whole % 10000) * 10000 + part) % 100000000 = 50000000
        tradeOutcome ==
            expectedValue + (whole + (part + 50000000) \div 10000) \div 10000
                - (IF halfWay /\ halfCent = 0 THEN 1 ELSE 0)
    IN  [ index |-> index, draws |-> <<first, second>>,
          offerQuality |-> offerQuality, closeProbability |-> closeProbability,
          valueGainPct |-> valueGainPct,
          expectedValueUsd |-> Max(1, tradeOutcome) ]

\* The seeds: the least and the greatest integers of 32 bits and their
\* neighbours, -1, 0, 1, and 7 and 42 of the tests.
SimulationSeeds ==
    { -2147483647, -2147483646, -2147483645, -1, 0, 1, 7, 42,
      2147483645, 2147483646, 2147483647 }

\* scenarioCount
ScenarioCounts == {0, 1, 2, 3}

\* startValueUsd, in cents
StartValues == {0, 1, 90, 500}

\* runTradeSimulation throws
SimulationThrows ==
    /\ ~call.done
    /\ call.input.operation = "simulate"
    /\ call.result.pc = "start"
    /\ call.input.scenarioCount < 1 \/ call.input.startValueUsd <= 0
    /\ call' = [call EXCEPT !.result.pc = "thrown", !.done = TRUE]
    /\ UNCHANGED <<opportunities, offers, items, positions, checklists, events, response,
                   faults, policyRules, tasks, evidence, valuations,
                   requests, pool>>

\* runTradeSimulation: const random = createRng(input.seed)
SimulationSeeded ==
    /\ ~call.done
    /\ call.input.operation = "simulate"
    /\ call.result.pc = "start"
    /\ call.input.scenarioCount >= 1
    /\ call.input.startValueUsd > 0
    /\ call' = [call EXCEPT !.result.pc = "loop",
                            !.result.state = createRng(call.input.seed)]
    /\ UNCHANGED <<opportunities, offers, items, positions, checklists, events, response,
                   faults, policyRules, tasks, evidence, valuations,
                   requests, pool>>

\* runTradeSimulation: one pass of the loop
SimulationScenario ==
    /\ ~call.done
    /\ call.input.operation = "simulate"
    /\ call.result.pc = "loop"
    /\ Len(call.result.scenarios) < call.input.scenarioCount
    /\ \E halfGain \in {0, 1}, halfCent \in {0, 1} :
       LET next == scenario(Len(call.result.scenarios) + 1, call.result.state,
                            call.result.expectedValue, halfGain, halfCent)
       IN  call' = [call EXCEPT
                      !.result.state = next.draws[2],
                      !.result.expectedValue = next.expectedValueUsd,
                      !.result.scenarios = Append(call.result.scenarios, next)]
    /\ UNCHANGED <<opportunities, offers, items, positions, checklists, events, response,
                   faults, policyRules, tasks, evidence, valuations,
                   requests, pool>>

\* runTradeSimulation returns the summary
SimulationReturns ==
    /\ ~call.done
    /\ call.input.operation = "simulate"
    /\ call.result.pc = "loop"
    /\ Len(call.result.scenarios) = call.input.scenarioCount
    /\ call' = [call EXCEPT !.result.pc = "returned", !.done = TRUE]
    /\ UNCHANGED <<opportunities, offers, items, positions, checklists, events, response,
                   faults, policyRules, tasks, evidence, valuations,
                   requests, pool>>

SimulationInit ==
    /\ opportunities = <<>>
    /\ offers = <<>>
    /\ items = <<>>
    /\ positions = <<>>
    /\ checklists = <<>>
    /\ events = <<>>
    /\ response = NoReply
    /\ faults = 0
    /\ policyRules = {}
    /\ tasks = <<>>
    /\ evidence = <<>>
    /\ valuations = <<>>
    /\ requests = <<>>
    /\ pool = NoPool
    /\ call \in { [ input |-> [ operation |-> "simulate", seed |-> seed,
                                scenarioCount |-> scenarioCount,
                                startValueUsd |-> startValueUsd ],
                    result |-> [ pc |-> "start", state |-> 0, scenarios |-> <<>>,
                                 expectedValue |-> startValueUsd ],
                    done |-> FALSE ] :
                    seed \in SimulationSeeds,
                    scenarioCount \in ScenarioCounts,
                    startValueUsd \in StartValues }

SimulationNext ==
    \/ SimulationThrows
    \/ SimulationSeeded
    \/ SimulationScenario
    \/ SimulationReturns

\* Runs of the trade simulation.
SimulationSpec == SimulationInit /\ [][SimulationNext]_vars

\* ------------------------------------------------------------ KPI
\* SUM(...) of SQL over the values of a column, NULL for no non-NULL value
RECURSIVE SUM(_)
SUM(values) ==
    IF values = <<>> THEN NULL
    ELSE IF isNull(Head(values)) THEN SUM(Tail(values))
    ELSE IF isNull(SUM(Tail(values))) THEN Head(values)
    ELSE Head(values) + SUM(Tail(values))

\* Number((numerator / denominator).toFixed(4)) in ten-thousandths, for a
\* numerator >= 0 and a denominator > 0
ratioToFixed4(numerator, denominator) ==
    (2 * numerator * One + denominator) \div (2 * denominator)

\* computeDashboardMetrics dividing by the amount of a negative seed cost
normalizedSeedCost_Amount(seedCostUsd) ==
    IF seedCostUsd > 0 THEN seedCostUsd
    ELSE IF seedCostUsd < 0 THEN -seedCostUsd
    ELSE 100

\* computeDashboardMetrics: seedCostUsd > 0 ? seedCostUsd : 1, in cents
normalizedSeedCost(seedCostUsd) == IF seedCostUsd > 0 THEN seedCostUsd ELSE 100

\* computeDashboardMetrics counting every task
activeTaskStatuses_All == {"queued", "in_progress", "completed", "failed"}

\* computeDashboardMetrics: WHERE status IN ('queued', 'in_progress')
activeTaskStatuses == {"queued", "in_progress"}

\* computeDashboardMetrics: the statuses of the positions whose item counts
\* for the current value
valuedStatuses ==
    { "seeded", "sourcing", "screened", "negotiating",
      "accepted_pending_verification", "verified", "completed" }

\* AuthRepository.computeDashboardMetrics, without the median cycle time,
\* which is computed from the timestamps of the rows
computeDashboardMetrics(seedCostUsd) ==
    LET totalValue ==
            COALESCE(SUM([i \in DOMAIN positions |->
                            IF positions[i].currentStatus \in valuedStatuses
                            THEN items[positions[i].itemId].estValueUsd
                            ELSE NULL]), 0)
        sentCount == Cardinality({i \in DOMAIN offers : offers[i].status = "sent"})
        totalOfferCount == Len(offers)
        disputedValue ==
            COALESCE(SUM([i \in DOMAIN positions |->
                            IF positions[i].currentStatus = "disputed"
                            THEN positions[i].acquisitionValueUsd
                            ELSE 0]), 0)
        totalAcquisitionValue ==
            COALESCE(SUM([i \in DOMAIN positions |->
                            positions[i].acquisitionValueUsd]), 0)
        activeTasks ==
            Cardinality({i \in DOMAIN tasks : tasks[i].status \in activeTaskStatuses})
    IN  [ valueMultiple |-> ratioToFixed4(totalValue, normalizedSeedCost(seedCostUsd)),
          closeRate |-> IF totalOfferCount > 0
                        THEN ratioToFixed4(sentCount, totalOfferCount)
                        ELSE 0,
          fraudLossPct |-> IF totalAcquisitionValue > 0
                           THEN ratioToFixed4(disputedValue * 100, totalAcquisitionValue)
                           ELSE 0,
          activeTasks |-> activeTasks ]

\* The seed costs metrics are computed for, in cents.
SeedCosts == {-90, 0, 90, 100}

\* a position and the item that backs it, as createPortfolioPosition stores
\* them and updatePortfolioPositionStatus updates them
PositionRow(itemId, acquisitionValueUsd, currentStatus) ==
    [ itemId |-> itemId, acquisitionValueUsd |-> acquisitionValueUsd,
      currentStatus |-> currentStatus ]

ItemRow(estValueUsd) ==
    [ title |-> <<"T">>, category |-> "uncategorized", condition |-> NULL,
      location |-> NULL, estValueUsd |-> estValueUsd ]

\* The portfolios metrics are computed for, as sequences of <<acquisition
\* value, status>>: no position; one without acquisition value; a verified
\* and a disputed one; a disputed, a failed and a seeded one; and a disputed
\* one with a third of the acquisition value of all.
KpiPortfolios ==
    { <<>>,
      << <<NULL, "seeded">> >>,
      << <<90, "verified">>, <<60, "disputed">> >>,
      << <<90, "disputed">>, <<60, "failed">>, <<150, "seeded">> >>,
      << <<10, "disputed">>, <<20, "completed">> >> }

\* The offers metrics are computed for: none, or three drafts for
\* opportunity 1.
KpiOffers ==
    { <<>>,
      [i \in 1..3 |-> createOfferDraft(1, "{requestedItem,cashDeltaUsd}")] }

\* the metrics are computed for a seed cost
ComputeDashboardMetrics(seedCostUsd) ==
    /\ Accept
    /\ call = NoCall
    /\ call' = [ input |-> [operation |-> "metrics", seedCostUsd |-> seedCostUsd],
                 result |-> computeDashboardMetrics(seedCostUsd),
                 done |-> TRUE ]
    /\ UNCHANGED <<opportunities, offers, items, positions, checklists, events, response,
                   faults, policyRules, tasks, evidence, valuations,
                   requests, pool>>

\* the computed metrics have been handed on
MetricsReturned ==
    /\ call.done
    /\ call' = NoCall
    /\ UNCHANGED <<opportunities, offers, items, positions, checklists, events, response,
                   faults, policyRules, tasks, evidence, valuations,
                   requests, pool>>

KpiInit ==
    /\ opportunities = <<>>
    /\ offers \in KpiOffers
    /\ \E portfolio \in KpiPortfolios :
           /\ items = [i \in DOMAIN portfolio |-> ItemRow(portfolio[i][1])]
           /\ positions = [i \in DOMAIN portfolio |->
                              PositionRow(i, portfolio[i][1], portfolio[i][2])]
    /\ checklists = <<>>
    /\ events = <<>>
    /\ response = NoReply
    /\ faults = 0
    /\ policyRules = {}
    /\ tasks = <<>>
    /\ evidence = <<>>
    /\ valuations = <<>>
    /\ requests = <<>>
    /\ pool = NoPool
    /\ call = NoCall

\* The webhook updates before metrics are computed: the ones that name a
\* provider task id and a status the route accepts.
KpiWebhookBodies ==
    { body \in WebhookBodies :
        /\ body.providerTaskId.type = "string"
        /\ body.providerTaskId.value # <<>>
        /\ includes(validTaskStatuses, body.status) }

\* The most audit events the offer routes add to the log before metrics are
\* computed.
MaxKpiEvents == 4

KpiNext ==
    \/ /\ call = NoCall
       /\ \/ ReplySent
          \/ /\ Len(events) < MaxKpiEvents
             /\ \E offerId \in 1..3 :
                    \/ PostOffersApprove("reviewer-key", offerId)
                    \/ PostOffersReject("reviewer-key", offerId)
                    \/ PostOffersSend("operator-key", offerId)
          \/ \E suffix \in ProviderSuffixes :
                 PostTasks("operator-key", [type |-> "inspect", assignee |-> "runner"],
                           "returned", suffix)
          \/ \E body \in KpiWebhookBodies :
                 PostTasksWebhookProvider("dev-webhook-token", body)
    \/ \E seedCostUsd \in SeedCosts : ComputeDashboardMetrics(seedCostUsd)
    \/ MetricsReturned

\* KPI metrics over portfolios, offers moving through their transitions, and
\* tasks created and updated by webhook.
KpiSpec == KpiInit /\ [][KpiNext]_vars

\* ------------------------------------------------------------ offer claims
\* The offer transition table as the specification states it.
OfferTable ==
    { <<"draft", "approved">>, <<"draft", "rejected">>,
      <<"approved", "sent">>, <<"approved", "rejected">> }

\* the offer.status_changed events of offer i in an audit log, oldest first
RECURSIVE SelectEvents(_, _, _)
SelectEvents(log, eventType, entityId) ==
    IF log = <<>> THEN <<>>
    ELSE IF Head(log).eventType = eventType /\ Head(log).entityId = entityId
         THEN <<Head(log)>> \o SelectEvents(Tail(log), eventType, entityId)
         ELSE SelectEvents(Tail(log), eventType, entityId)

OfferStatusEvents(log, i) == SelectEvents(log, "offer.status_changed", ToString(i))

\* C1: every persisted change of an offer's status is a pair of the
\* transition table, an offer enters the table in status draft, and no offer
\* row disappears.
C1_OfferChangesFollowTable ==
    [][ /\ Len(offers') >= Len(offers)
        /\ \A i \in 1..Len(offers') :
              IF i <= Len(offers)
              THEN \/ offers'[i].status = offers[i].status
                   \/ <<offers[i].status, offers'[i].status>> \in OfferTable
              ELSE offers'[i].status = "draft" ]_vars

\* C1 witness: an offer has gone draft -> approved -> sent, each change audited.
C1_Witness ==
    \E i \in 1..Len(offers) :
        /\ offers[i].status = "sent"
        /\ Len(OfferStatusEvents(events, i)) = 2

\* the API keys the approve and reject routes, and the send route, let through
C2_ReviewKeys == {k \in ApiKeys : requireRole({"admin", "reviewer"}, k) = NoReply}

C2_SendKeys == {k \in ApiKeys : requireRole({"admin", "operator"}, k) = NoReply}

\* the reply to, and the effect of, a request for a pair outside the table
C2_Conflict(offerId, targetStatus) ==
    /\ response' = Reply(409, <<"Invalid transition from", offers[offerId].status,
                                "to", targetStatus>>)
    /\ UNCHANGED <<offers, events>>

\* C2: an approve, reject or send request that got past authentication and
\* names an existing offer whose (current, target) pair is outside the table
\* has one outcome only: it is answered 409 with a message naming both
\* statuses, and changes neither the offers table (status, sentByHumanId)
\* nor the audit log.
C2_InvalidOfferTransitionConflicts ==
    Accept
    => \A offerId \in 1..Len(offers) :
          /\ <<offers[offerId].status, "approved">> \notin OfferTable
             => \A apiKey \in C2_ReviewKeys :
                   ~ENABLED ( /\ PostOffersApprove(apiKey, offerId)
                              /\ ~C2_Conflict(offerId, "approved") )
          /\ <<offers[offerId].status, "rejected">> \notin OfferTable
             => \A apiKey \in C2_ReviewKeys :
                   ~ENABLED ( /\ PostOffersReject(apiKey, offerId)
                              /\ ~C2_Conflict(offerId, "rejected") )
          /\ <<offers[offerId].status, "sent">> \notin OfferTable
             => \A apiKey \in C2_SendKeys :
                   ~ENABLED ( /\ PostOffersSend(apiKey, offerId)
                              /\ ~C2_Conflict(offerId, "sent") )

\* C2 witness: approving a rejected offer has just been refused.
C2_Witness ==
    /\ response = Reply(409, <<"Invalid transition from", "rejected", "to", "approved">>)
    /\ \E i \in 1..Len(offers) : offers[i].status = "rejected"

\* C3: rejected and sent are terminal: an offer in one of them keeps its
\* status in every later step.
C3_OfferTerminalStatuses ==
    [][ \A i \in 1..Len(offers) :
            offers[i].status \in {"rejected", "sent"}
            => /\ i <= Len(offers')
               /\ offers'[i].status = offers[i].status ]_vars

\* C3 witness: a request on a sent offer has been answered (with a refusal).
C3_Witness ==
    /\ \E i \in 1..Len(offers) : offers[i].status = "sent"
    /\ response = Reply(409, <<"Invalid transition from", "sent", "to", "rejected">>)

\* C4: an offer has a sentByHumanId exactly when its status is sent; the
\* value is written by the send request that moves the offer to sent and is
\* the id of that request's user; no other step sets, changes or clears it.
C4_SentByIffSent ==
    \A i \in 1..Len(offers) :
        (offers[i].sentByHumanId # NULL) <=> (offers[i].status = "sent")

C4_SentByStep ==
    \A i \in 1..Len(offers') :
        (i > Len(offers) \/ offers'[i].sentByHumanId # offers[i].sentByHumanId)
        => IF i > Len(offers)
           THEN offers'[i].sentByHumanId = NULL
           ELSE \E apiKey \in ApiKeys :
                   /\ PostOffersSend(apiKey, i)
                   /\ requireRole({"admin", "operator"}, apiKey) = NoReply
                   /\ offers[i].status = "approved"
                   /\ offers'[i].status = "sent"
                   /\ offers'[i].sentByHumanId = ToString(authUser(apiKey).id)

C4_SentByHumanOnlyOnSent == [](C4_SentByIffSent) /\ [][C4_SentByStep]_vars

\* C4 witness: the operator (user 2) has sent an offer an admin or reviewer
\* approved.
C4_Witness ==
    \E i \in 1..Len(offers) :
        /\ offers[i].status = "sent"
        /\ offers[i].sentByHumanId = "2"

\* C5: every step changes the status of an offer exactly when it appends one
\* offer.status_changed event for it, recording the previous status, the new
\* status and the acting user; so the events of an offer count its status
\* changes.
C5_EventPerOfferStatusChange ==
    [][ \A i \in 1..Len(offers) :
            LET before == OfferStatusEvents(events, i)
                after == OfferStatusEvents(events', i)
            IN  IF offers'[i].status # offers[i].status
                THEN /\ Len(after) = Len(before) + 1
                     /\ after[Len(after)].payload.from = offers[i].status
                     /\ after[Len(after)].payload.to = offers'[i].status
                     /\ after[Len(after)].payload.actorUserId \in {u.id : u \in Users}
                ELSE after = before ]_vars

\* C24: an offer transition whose audit write fails is answered with an error
\* and leaves no status change without its event: the status of every offer
\* that has left draft is the status its last offer.status_changed event
\* records.
C24_NoStatusChangeWithoutEvent ==
    \A i \in 1..Len(offers) :
        offers[i].status # "draft" =>
            /\ OfferStatusEvents(events, i) # <<>>
            /\ OfferStatusEvents(events, i)[Len(OfferStatusEvents(events, i))].payload.to
                   = offers[i].status

\* offer i is stored with the status
C36_OfferIs(i, status) == i \in DOMAIN offers /\ offers[i].status = status

\* a step stores a new offer as draft, makes an offer approved only from
\* draft and makes an offer sent only from approved
C36_SentFromApproved ==
    \A i \in DOMAIN offers' :
        /\ i \notin DOMAIN offers => offers'[i].status = "draft"
        /\ i \in DOMAIN offers /\ offers'[i].status # offers[i].status =>
               /\ offers'[i].status = "approved" => offers[i].status = "draft"
               /\ offers'[i].status = "sent" => offers[i].status = "approved"

\* C36: every offer whose status is sent was approved in an earlier state;
\* with requests handled one at a time no offer goes from draft to sent
\* without a successful approve in between.
C36_SentOnlyAfterApproved ==
    /\ [][C36_SentFromApproved]_vars
    /\ \A i \in 1..MaxOffers : <>C36_OfferIs(i, "approved") \/ []~C36_OfferIs(i, "sent")

\* C36 witness: an offer is sent, and the approve request that came before
\* was answered 200 and is in the log
C36_Witness ==
    /\ C36_OfferIs(1, "sent")
    /\ \E j, k \in DOMAIN events :
           /\ j < k
           /\ events[j].eventType = "offer.status_changed"
           /\ events[j].payload.from = "draft"
           /\ events[j].payload.to = "approved"
           /\ events[k].eventType = "offer.status_changed"
           /\ events[k].payload.from = "approved"
           /\ events[k].payload.to = "sent"

\* ------------------------------------------------------------ offer race claims
\* a step changes the persisted status of an offer only along the table
C32_StepAlongTable ==
    \A i \in DOMAIN offers :
        offers'[i].status # offers[i].status =>
            offers'[i].status \in allowedOfferTransitions(offers[i].status)

\* C32: under every interleaving of two concurrent transition requests on the
\* same offer each persisted status change is a transition the table allows
\* from the status persisted immediately before it; an offer persisted as
\* sent or rejected is never overwritten by the other request.
C32_RaceAlongTable == [][C32_StepAlongTable]_vars

\* both requests have passed the check of the table and none has written yet
C32_BothPassedCheck ==
    /\ Len(requests) = 2
    /\ requests[1].pc = "updateOfferStatus"
    /\ requests[2].pc = "updateOfferStatus"
    /\ requests[1].targetStatus # requests[2].targetStatus

\* an offer whose log says it was sent is persisted as rejected
C32_SentOverwritten ==
    /\ offers # <<>>
    /\ offers[1].status = "rejected"
    /\ \E i \in DOMAIN events :
           /\ events[i].eventType = "offer.status_changed"
           /\ events[i].payload.to = "sent"

\* ------------------------------------------------------------ intake race claims
\* the requests that have answered without inserting a row although a row
\* with their fingerprint is stored
C33_Losers ==
    {r \in DOMAIN requests :
        /\ requests[r].pc = "done"
        /\ requests[r].created = 0
        /\ findOpportunityByDedupeKey(requests[r].input.dedupeKey) # {}}

\* at most one opportunity is stored for a fingerprint
C33_OnePerFingerprint ==
    \A i, j \in DOMAIN opportunities :
        opportunities[i].dedupeKey = opportunities[j].dedupeKey => i = j

\* C33: under every interleaving of two concurrent intake requests with
\* identical normalized fields at most one opportunity is stored for the
\* fingerprint, and the losing request is answered 409 as a duplicate, not
\* 201 and not 500.
C33_LoserRejectedAsDuplicate ==
    /\ C33_OnePerFingerprint
    /\ \A r \in C33_Losers : requests[r].response.statusCode = 409

\* both requests, with the same fingerprint, have found no row and none has
\* inserted yet
C33_BothFoundNone ==
    /\ Len(requests) = 2
    /\ requests[1].pc = "createOpportunity"
    /\ requests[2].pc = "createOpportunity"
    /\ requests[1].input.dedupeKey = requests[2].input.dedupeKey

\* the loser of the race is answered 500
C33_LoserFails ==
    \E r \in C33_Losers : requests[r].response = InternalError

\* ------------------------------------------------------------ portfolio claims
\* The portfolio transition table as the specification states it.
PortfolioTable ==
    { <<"seeded", "sourcing">>,
      <<"sourcing", "screened">>, <<"sourcing", "failed">>,
      <<"screened", "negotiating">>, <<"screened", "failed">>,
      <<"negotiating", "accepted_pending_verification">>, <<"negotiating", "failed">>,
      <<"accepted_pending_verification", "verified">>,
      <<"accepted_pending_verification", "failed">>,
      <<"accepted_pending_verification", "disputed">>,
      <<"verified", "completed">>, <<"verified", "failed">>, <<"verified", "disputed">> }

\* the API keys the transition route, and the checklist route, let through
TransitionKeys ==
    {k \in PortfolioApiKeys : requireRole({"admin", "operator"}, k) = NoReply}

ChecklistKeys ==
    {k \in PortfolioApiKeys : requireRole({"admin", "reviewer"}, k) = NoReply}

\* the checklist bodies whose four checks are booleans
BooleanChecklistBodies ==
    { b \in ChecklistBodies :
        /\ b.identityConfirmed.type = "boolean"
        /\ b.conditionConfirmed.type = "boolean"
        /\ b.receiptProvided.type = "boolean"
        /\ b.ownershipProofProvided.type = "boolean" }

\* C6: a position enters the table in status seeded, every persisted change
\* of a position's status, by the transition endpoint or by a checklist run,
\* is a pair of the portfolio transition table, and no position row
\* disappears.
C6_PositionChangesFollowTable ==
    [][ /\ Len(positions') >= Len(positions)
        /\ \A i \in 1..Len(positions') :
              IF i <= Len(positions)
              THEN \/ positions'[i].currentStatus = positions[i].currentStatus
                   \/ <<positions[i].currentStatus, positions'[i].currentStatus>>
                          \in PortfolioTable
              ELSE positions'[i].currentStatus = "seeded" ]_vars

\* C6 witness: a position has been moved by the transition endpoint up to
\* accepted_pending_verification, by a checklist run to verified and by the
\* transition endpoint to completed.
C6_Witness ==
    \E i \in 1..Len(positions) :
        /\ positions[i].currentStatus = "completed"
        /\ \E c \in 1..Len(checklists) :
              /\ checklists[c].portfolioPositionId = i
              /\ checklists[c].outcomeStatus = "verified"

\* a transition request for a pair outside the table has no outcome but the
\* 409 that changes nothing
C7_Rejected ==
    Accept
    => \A positionId \in 1..Len(positions), targetStatus \in PortfolioStatuses :
          <<positions[positionId].currentStatus, targetStatus>> \notin PortfolioTable
          => \A apiKey \in TransitionKeys :
                ~ENABLED ( /\ PostPortfolioTransition(apiKey, positionId, targetStatus)
                           /\ ~( /\ response' = Reply(409, <<"Invalid transition from",
                                                  positions[positionId].currentStatus,
                                                  "to", targetStatus>>)
                                 /\ UNCHANGED <<positions, checklists, events>> ) )

\* a request for a pair of the table can succeed whenever a request is taken
C7_ValidSucceeds ==
    Accept
    => \A positionId \in 1..Len(positions), targetStatus \in PortfolioStatuses :
          <<positions[positionId].currentStatus, targetStatus>> \in PortfolioTable
          => \A apiKey \in TransitionKeys :
                ENABLED ( /\ PostPortfolioTransition(apiKey, positionId, targetStatus)
                          /\ response' = Reply(200, NoError)
                          /\ positions'[positionId].currentStatus = targetStatus )

\* C7: a transition request that got past authentication and names an
\* existing position and a pair outside the table is answered 409 and leaves
\* the position (and the checklists and the audit log) as they were; and in
\* every state where a request is taken, so also after such a refusal, a
\* request for a pair of the table from the position's status succeeds.
C7_InvalidPortfolioTransitionConflicts ==
    C7_Rejected /\ C7_ValidSucceeds

\* C7 witness: seeded -> verified has just been refused and the position is
\* still seeded.
C7_Witness ==
    /\ response = Reply(409, <<"Invalid transition from", "seeded", "to", "verified">>)
    /\ \E i \in 1..Len(positions) : positions[i].currentStatus = "seeded"

\* C8: completed, failed and disputed are terminal: a position in one of
\* them keeps its status in every later step, whatever transition request or
\* checklist run is handled.
C8_PortfolioTerminalStatuses ==
    [][ \A i \in 1..Len(positions) :
            positions[i].currentStatus \in {"completed", "failed", "disputed"}
            => /\ i <= Len(positions')
               /\ positions'[i].currentStatus = positions[i].currentStatus ]_vars

\* C8 witness: a transition request on a failed position has been answered
\* (with a refusal).
C8_Witness ==
    /\ \E i \in 1..Len(positions) : positions[i].currentStatus = "failed"
    /\ response = Reply(409, <<"Invalid transition from", "failed", "to", "sourcing">>)

\* a checklist run requested for a position outside
\* accepted_pending_verification has no outcome but a refusal that changes
\* nothing
C9_Conflict ==
    Accept
    => \A positionId \in 1..Len(positions) :
          positions[positionId].currentStatus # "accepted_pending_verification"
          => \A apiKey \in ChecklistKeys, body \in ChecklistBodies :
                ~ENABLED ( /\ PostVerificationChecklist(apiKey, positionId, body)
                           /\ ~( /\ response'.statusCode \in {400, 409}
                                 /\ body \in BooleanChecklistBodies
                                        => response'.statusCode = 409
                                 /\ UNCHANGED <<positions, checklists, events>> ) )

\* a checklist record is only ever added for a position that is in
\* accepted_pending_verification, and none is changed or removed
C9_RecordsOnlyWhilePending ==
    /\ Len(checklists') >= Len(checklists)
    /\ \A c \in 1..Len(checklists') :
          IF c <= Len(checklists)
          THEN checklists'[c] = checklists[c]
          ELSE /\ checklists'[c].portfolioPositionId \in 1..Len(positions)
               /\ positions[checklists'[c].portfolioPositionId].currentStatus
                      = "accepted_pending_verification"

\* C9: a checklist is run only on a position that is exactly in
\* accepted_pending_verification: a run requested for a position in any
\* other status is answered with a conflict (409) when its four checks are
\* booleans and is rejected in any case, writes no checklist record and
\* leaves the position's status unchanged.
C9_ChecklistOnlyWhilePending ==
    [](C9_Conflict) /\ [][C9_RecordsOnlyWhilePending]_vars

\* C9 witness: a checklist run on a position still in sourcing has been
\* refused, and no checklist is stored.
C9_Witness ==
    /\ response = Reply(409, <<"Position must be in accepted_pending_verification",
                               "sourcing">>)
    /\ \E i \in 1..Len(positions) : positions[i].currentStatus = "sourcing"
    /\ checklists = <<>>

\* the AND of the four checks of a body, and the status the routing rule of
\* the specification sends the position to
C10_AllTrue(body) ==
    /\ body.identityConfirmed = JsBoolean(TRUE)
    /\ body.conditionConfirmed = JsBoolean(TRUE)
    /\ body.receiptProvided = JsBoolean(TRUE)
    /\ body.ownershipProofProvided = JsBoolean(TRUE)

C10_Route(body) ==
    IF C10_AllTrue(body) THEN "verified"
    ELSE IF body.disputed = JsBoolean(TRUE) THEN "disputed"
    ELSE "failed"

\* a checklist run that returns success has recorded and routed as stated
C10_Run ==
    Accept
    => \A positionId \in 1..Len(positions) :
          positions[positionId].currentStatus = "accepted_pending_verification"
          => \A apiKey \in ChecklistKeys, body \in BooleanChecklistBodies :
                ~ENABLED
                  ( /\ PostVerificationChecklist(apiKey, positionId, body)
                    /\ response' = Reply(200, NoError)
                    /\ ~( /\ Len(checklists') = Len(checklists) + 1
                          /\ checklists'[Len(checklists')].portfolioPositionId = positionId
                          /\ checklists'[Len(checklists')].passed = C10_AllTrue(body)
                          /\ checklists'[Len(checklists')].outcomeStatus = C10_Route(body)
                          /\ positions'[positionId].currentStatus = C10_Route(body) ) )

\* every combination of checks and flag can be run to success on a position
\* in accepted_pending_verification
C10_EveryCombinationRuns ==
    (Accept /\ Len(checklists) < MaxChecklists)
    => \A positionId \in 1..Len(positions) :
          positions[positionId].currentStatus = "accepted_pending_verification"
          => \A apiKey \in ChecklistKeys, body \in BooleanChecklistBodies :
                ENABLED ( /\ PostVerificationChecklist(apiKey, positionId, body)
                          /\ response' = Reply(200, NoError) )

\* C10: for every combination of the four boolean checks and the disputed
\* flag, a checklist run on a position in accepted_pending_verification can
\* succeed, and a run that succeeds records passed = AND of the four checks
\* and moves the position to verified when passed, to disputed when not
\* passed with the flag set, and to failed when not passed without the flag;
\* with all four checks true the flag changes nothing.
C10_ChecklistOutcomeRouting ==
    C10_EveryCombinationRuns /\ C10_Run

\* C10 witness: a run with a failed check and the disputed flag has returned
\* success and moved the position to disputed.
C10_Witness ==
    /\ response = Reply(200, NoError)
    /\ \E c \in 1..Len(checklists) :
          /\ ~checklists[c].passed
          /\ checklists[c].outcomeStatus = "disputed"
          /\ positions[checklists[c].portfolioPositionId].currentStatus = "disputed"

\* C11: a checklist request that got past authentication for a position in
\* accepted_pending_verification, in which one of the four checks is missing
\* or no boolean, has one outcome only: it is answered 400, writes no
\* checklist record, leaves the position in accepted_pending_verification
\* and appends no audit event.
C11_InvalidChecklistRejected ==
    Accept
    => \A positionId \in 1..Len(positions) :
          positions[positionId].currentStatus = "accepted_pending_verification"
          => \A apiKey \in ChecklistKeys,
                body \in ChecklistBodies \ BooleanChecklistBodies :
                ~ENABLED ( /\ PostVerificationChecklist(apiKey, positionId, body)
                           /\ ~( /\ response'.statusCode = 400
                                 /\ UNCHANGED <<positions, checklists, events>> ) )

\* C11 witness: a checklist request with a missing check has been refused
\* while the position awaits verification, and nothing is stored.
C11_Witness ==
    /\ response.statusCode = 400
    /\ response.error = <<"identityConfirmed, conditionConfirmed, receiptProvided, and ownershipProofProvided are required booleans">>
    /\ \E i \in 1..Len(positions) :
          positions[i].currentStatus = "accepted_pending_verification"
    /\ checklists = <<>>

\* C12: the checklist record and the lifecycle transition are one unit:
\* every step that stores a checklist record also moves the record's
\* position to the record's outcomeStatus, so no stored record is without
\* its transition.
C12_ChecklistWithTransition ==
    [][ \A c \in 1..Len(checklists') :
            c > Len(checklists)
            => positions'[checklists'[c].portfolioPositionId].currentStatus
                   = checklists'[c].outcomeStatus ]_vars

\* the core path of a position
C37_CorePath ==
    << "seeded", "sourcing", "screened", "negotiating",
       "accepted_pending_verification", "verified", "completed" >>

\* the status changes a position in the status can still make at most
C37_Remaining(status) ==
    CASE status = "seeded" -> 6
      [] status = "sourcing" -> 5
      [] status = "screened" -> 4
      [] status = "negotiating" -> 3
      [] status = "accepted_pending_verification" -> 2
      [] status = "verified" -> 1
      [] OTHER -> 0

\* position i is stored with the status
C37_PositionIs(i, status) == i \in DOMAIN positions /\ positions[i].currentStatus = status

\* a step stores a new position as seeded; a change of status takes a
\* position to the next status of the core path or off the path, to failed
\* or disputed, and leaves it fewer changes than before
C37_StepAlongCorePath ==
    \A i \in DOMAIN positions' :
        /\ i \notin DOMAIN positions => positions'[i].currentStatus = "seeded"
        /\ i \in DOMAIN positions
             /\ positions'[i].currentStatus # positions[i].currentStatus =>
               /\ C37_Remaining(positions'[i].currentStatus)
                      < C37_Remaining(positions[i].currentStatus)
               /\ \/ positions'[i].currentStatus \in {"failed", "disputed"}
                  \/ \E k \in 1..6 :
                         /\ positions[i].currentStatus = C37_CorePath[k]
                         /\ positions'[i].currentStatus = C37_CorePath[k + 1]

\* the table has no cycle: every pair of it leaves fewer changes
C37_TableAcyclic ==
    \A from \in PortfolioStatuses :
        \A k \in DOMAIN portfolioTransitions(from) :
            C37_Remaining(portfolioTransitions(from)[k]) < C37_Remaining(from)

\* C37: a position reaches completed only along the core path (a completed
\* position has been seeded, sourcing, screened, negotiating,
\* accepted_pending_verification and verified, in this order), no position
\* is verified without having been in accepted_pending_verification, and
\* the table has no cycle, so that a position changes status at most 6
\* times.
C37_CompletedAlongCorePath ==
    /\ []C37_TableAcyclic
    /\ [][C37_StepAlongCorePath]_vars
    /\ \A i \in 1..MaxPositions :
           /\ <>C37_PositionIs(i, "accepted_pending_verification")
                  \/ []~C37_PositionIs(i, "verified")
           /\ <>C37_PositionIs(i, "verified") \/ []~C37_PositionIs(i, "completed")

\* C37 witness: a position is completed and every stage of the core path
\* is in the log
C37_Witness ==
    /\ C37_PositionIs(1, "completed")
    /\ \A k \in 1..6 :
           \E j \in DOMAIN events :
               /\ events[j].eventType = "portfolio.status_changed"
               /\ events[j].payload.from = C37_CorePath[k]
               /\ events[j].payload.to = C37_CorePath[k + 1]

\* ------------------------------------------------------------ intake claims
\* the API keys the intake route lets through
IntakeKeys == {k \in ApiKeys : requireRole({"admin", "operator"}, k) = NoReply}

\* no two stored opportunities have the same fingerprint
C13_Unique ==
    \A i, j \in 1..Len(opportunities) :
        i # j => opportunities[i].dedupeKey # opportunities[j].dedupeKey

\* a submission with the fingerprint of a stored opportunity has no outcome
\* but the 409 that names it and changes nothing
C13_DuplicateRejected ==
    Accept
    => \A i \in 1..Len(opportunities), body \in IntakeBodies :
          ( /\ opportunityInputValid(body)
            /\ parseOpportunityInput(body).dedupeKey = opportunities[i].dedupeKey )
          => \A apiKey \in IntakeKeys :
                ~ENABLED ( /\ PostOpportunities(apiKey, body)
                           /\ ~( /\ response' = Reply(409, <<"Duplicate opportunity",
                                                             ToString(i)>>)
                                 /\ UNCHANGED <<opportunities, events>> ) )

\* C13: with intake requests handled one at a time no two stored
\* opportunities have the same dedupe fingerprint, and a submission whose
\* fingerprint is stored already is answered 409 'Duplicate opportunity'
\* with the id of the stored one, creates and modifies no opportunity and
\* writes no event.
C13_NoDuplicateOpportunities == C13_Unique /\ C13_DuplicateRejected

\* C13 witness: two opportunities are stored and a resubmission of the first
\* has been refused.
C13_Witness ==
    /\ Len(opportunities) = 2
    /\ response = Reply(409, <<"Duplicate opportunity", "1">>)

\* the five fields the fingerprint is made of: normalized source, category
\* and location, the lowercased title and the 2-decimal price
C14_Fields(input) ==
    << input.source, input.category, input.location,
       toLowerCase(input.title), toFixed2(input.askValueUsd) >>

\* C14: the fingerprint of a valid submission equals the fingerprint of a
\* stored opportunity exactly when their normalized source, category,
\* location, lowercased title and 2-decimal price are all equal (the hash
\* taken as injective).
C14_FingerprintIffFields ==
    \A i \in 1..Len(opportunities), body \in IntakeBodies :
        opportunityInputValid(body)
        => ( parseOpportunityInput(body).dedupeKey = opportunities[i].dedupeKey
             <=> C14_Fields(parseOpportunityInput(body)) = C14_Fields(opportunities[i]) )

\* a required text field is missing, no string, or empty after normalization
C15_Missing(field) == field.type # "string" \/ normalizeText(field.value) = <<>>

\* the price is no finite number greater than 0
C15_NoPrice(priceUsd) ==
    priceUsd.type # "number" \/ ~priceUsd.finite \/ priceUsd.value <= 0

\* C15: an intake submission that got past authentication and whose source,
\* category or location is missing or empty after normalization, or whose
\* price is no finite number greater than 0, has one outcome only: the 400
\* with the combined validation error, no duplicate answer, no opportunity
\* created and no audit event written.
C15_InvalidIntakeRejected ==
    Accept
    => \A body \in IntakeBodies :
          ( \/ C15_Missing(body.source)
            \/ C15_Missing(body.category)
            \/ C15_Missing(body.location)
            \/ C15_NoPrice(body.priceUsd) )
          => \A apiKey \in IntakeKeys :
                ~ENABLED ( /\ PostOpportunities(apiKey, body)
                           /\ ~( /\ response' = Reply(400, <<"source, category, location, and positive priceUsd are required">>)
                                 /\ UNCHANGED <<opportunities, events>> ) )

\* C15 witness: an invalid submission has been refused while an opportunity
\* is stored, and the stored one has its event and no other.
C15_Witness ==
    /\ response = Reply(400, <<"source, category, location, and positive priceUsd are required">>)
    /\ Len(opportunities) = 1
    /\ Len(events) = 1

\* ------------------------------------------------------------ policy claims
\* the API keys that pass requireRole of POST /outbound/actions
OutboundKeys ==
    {apiKey \in PolicyApiKeys : requireRole({"admin", "operator"}, apiKey) = NoReply}

\* the outbound action bodies with a platform and an action
EvaluatedBodies ==
    { body \in OutboundActionBodies :
        /\ body.platform.type = "string" /\ body.platform.value # <<>>
        /\ body.action.type = "string" /\ body.action.value # <<>> }

\* the rules stored for the pair an outbound action body normalizes to
RulesFor(body) ==
    { rule \in policyRules :
        /\ rule.platform = normalizeText(body.platform.value)
        /\ rule.action = normalizeText(body.action.value) }

LastEvent == events[Len(events)]

\* a reply that carries a policy decision, as against an error reply
IsDecision(reply) == "policyCode" \in DOMAIN reply

\* C16: an outbound action is answered with a decision, 202 or 403, with or
\* without a matching rule, only in a step that appends exactly one event, a
\* policy.decision event that records the actor, the decision returned, the
\* reason and the policy code returned.
C16_DecisionRecorded ==
    Accept =>
        \A apiKey \in PolicyApiKeys, body \in OutboundActionBodies :
            ~ENABLED ( /\ PostOutboundActions(apiKey, body)
                       /\ IsDecision(response')
                       /\ ~( /\ response'.statusCode \in {202, 403}
                             /\ Len(events') = Len(events) + 1
                             /\ SubSeq(events', 1, Len(events)) = events
                             /\ events'[Len(events')].eventType = "policy.decision"
                             /\ events'[Len(events')].payload.actorUserId
                                    = authUser(apiKey).id
                             /\ events'[Len(events')].payload.allowed
                                    = response'.allowed
                             /\ events'[Len(events')].payload.allowed
                                    = (response'.statusCode = 202)
                             /\ events'[Len(events')].payload.policyCode
                                    = response'.policyCode
                             /\ events'[Len(events')].payload.reason
                                    = IF RulesFor(body) = {}
                                      THEN "No explicit deny rule found."
                                      ELSE (CHOOSE r \in RulesFor(body) : TRUE).reason ) )

C16_Witness ==
    /\ IsDecision(response)
    /\ response.statusCode = 403
    /\ Len(events) = 3
    /\ events[2].eventType = "policy.decision"
    /\ events[2].payload.allowed
    /\ events[2].payload.policyCode = POLICY_DEFAULT_ALLOW
    /\ LastEvent.eventType = "policy.decision"
    /\ ~LastEvent.payload.allowed
    /\ LastEvent.payload.reason = "blocked by terms of service"

\* the only outcome of an outbound action without rule for its pair, the
\* store not failing: 202 queued with policy code POLICY_DEFAULT_ALLOW, and
\* the decision recorded as allowed with the given reason
C17_DefaultAllow(reason) ==
    Accept =>
        \A apiKey \in OutboundKeys, body \in EvaluatedBodies :
            RulesFor(body) = {} =>
                ~ENABLED ( /\ PostOutboundActions(apiKey, body)
                           /\ response' # InternalError
                           /\ ~( /\ response' = DecisionReply(202, TRUE,
                                                    POLICY_DEFAULT_ALLOW, "queued")
                                 /\ events'[Len(events')].payload.allowed
                                 /\ events'[Len(events')].payload.policyCode
                                        = POLICY_DEFAULT_ALLOW
                                 /\ events'[Len(events')].payload.reason = reason ) )

\* C17: without a rule for the normalized platform and action, the action is
\* allowed with policy code POLICY_DEFAULT_ALLOW and answered 202 queued, and
\* the reason of the decision is "No explicit deny rule found." with its full
\* stop.
C17_DefaultAllowWithFullStop == C17_DefaultAllow("No explicit deny rule found.")

\* C17 as stated: the reason of the default decision is
\* "No explicit deny rule found", without full stop.
C17_DefaultAllowAsStated == C17_DefaultAllow("No explicit deny rule found")

C17_Witness ==
    /\ response = DecisionReply(202, TRUE, POLICY_DEFAULT_ALLOW, "queued")
    /\ policyRules # {}
    /\ LastEvent.eventType = "policy.decision"
    /\ LastEvent.payload.reason = "No explicit deny rule found."

\* C18: the policy code of a decision made by a matching rule holds only the
\* characters A-Z, 0-9 and the underscore.
C18_PolicyCodeSanitized ==
    IsDecision(response) /\ response.policyCode # POLICY_DEFAULT_ALLOW =>
        \A i \in 1..Len(response.policyCode) :
            response.policyCode[i] \in UpperAlphanumerics \cup {"_"}

\* an upsert leaves exactly the upserted rule for its pair and the rules of
\* the other pairs as they were
C19_UpsertReplaces ==
    Accept =>
        \A payload \in PolicyRuleInputs :
            ~ENABLED ( /\ PostAdminPolicyRules("admin-key", payload)
                       /\ response'.statusCode = 200
                       /\ ~( /\ {r \in policyRules' : /\ r.platform = payload.platform
                                                      /\ r.action = payload.action}
                                    = {payload}
                             /\ {r \in policyRules' : ~( /\ r.platform = payload.platform
                                                         /\ r.action = payload.action )}
                                    = {r \in policyRules : ~( /\ r.platform = payload.platform
                                                              /\ r.action = payload.action )} ) )

\* the stored rule of the pair an outbound action normalizes to governs it:
\* its allowed flag and reason are recorded, a deny is answered 403 with that
\* reason, an allow 202 queued
C19_RuleGoverns ==
    Accept =>
        \A apiKey \in OutboundKeys, body \in EvaluatedBodies :
            \A rule \in RulesFor(body) :
                ~ENABLED ( /\ PostOutboundActions(apiKey, body)
                           /\ response' # InternalError
                           /\ ~( /\ response'.allowed = rule.allowed
                                 /\ response'.statusCode
                                        = IF rule.allowed THEN 202 ELSE 403
                                 /\ response'.detail
                                        = IF rule.allowed THEN "queued" ELSE rule.reason
                                 /\ events'[Len(events')].payload.allowed = rule.allowed
                                 /\ events'[Len(events')].payload.reason = rule.reason ) )

TaskKeys ==
    {apiKey \in TaskApiKeys : requireRole({"admin", "operator"}, apiKey) = NoReply}

\* a request whose provider call fails or times out fails, and leaves the
\* tasks and the events as they were
C20_FailureLeavesNothing ==
    Accept =>
        \A apiKey \in TaskKeys, body \in TaskBodies,
           outcome \in ProviderOutcomes \ {"returned"}, suffix \in ProviderSuffixes :
            /\ body.type \in TaskTypes => ENABLED PostTasks(apiKey, body, outcome, suffix)
            /\ ~ENABLED ( /\ PostTasks(apiKey, body, outcome, suffix)
                          /\ ~( /\ tasks' = tasks
                                /\ events' = events
                                /\ response'.statusCode \in {400, 500} ) )

\* a request adds at most one task record, for a provider call that returned,
\* with status queued and the provider name and external id returned; a
\* task.created event is written only with such a record and names it
C20_RecordFromProviderTask ==
    Accept =>
        \A apiKey \in TaskApiKeys, body \in TaskBodies,
           outcome \in ProviderOutcomes, suffix \in ProviderSuffixes :
            ~ENABLED ( /\ PostTasks(apiKey, body, outcome, suffix)
                       /\ (tasks' # tasks \/ events' # events)
                       /\ ~( /\ outcome = "returned"
                             /\ Len(tasks') = Len(tasks) + 1
                             /\ SubSeq(tasks', 1, Len(tasks)) = tasks
                             /\ tasks'[Len(tasks')].status = "queued"
                             /\ tasks'[Len(tasks')].type = body.type
                             /\ tasks'[Len(tasks')].providerName = "rentahuman_stub"
                             /\ tasks'[Len(tasks')].providerTaskId
                                    = <<body.type, "-", suffix>>
                             /\ \/ events' = events
                                \/ /\ Len(events') = Len(events) + 1
                                   /\ events'[Len(events')].eventType = "task.created"
                                   /\ events'[Len(events')].entityId = ToString(Len(tasks'))
                                   /\ events'[Len(events')].payload.providerTaskId
                                          = <<body.type, "-", suffix>> ) )

\* C20: the task provider is called before anything is persisted: a request
\* whose provider call fails or times out fails and leaves no task record and
\* no task.created event, and a task record is added only for a provider call
\* that returned, with status queued and the external id returned.
C20_ProviderBeforePersist == C20_FailureLeavesNothing /\ C20_RecordFromProviderTask

C20_Witness ==
    /\ Len(tasks) = 1
    /\ tasks[1].status = "queued"
    /\ tasks[1].providerTaskId = <<"inspect", "-", "k3x9">>
    /\ Len(events) = 1
    /\ events[1].eventType = "task.created"
    /\ response = InternalError

\* the webhook bodies with a provider task id and a valid status
ValidWebhookBodies ==
    { body \in WebhookBodies :
        /\ body.providerTaskId.type = "string"
        /\ body.providerTaskId.value # <<>>
        /\ body.status \in {"queued", "in_progress", "completed", "failed"} }

\* a webhook request with a token that is not the secret is answered 401,
\* one with the secret and an invalid body 400, one with a valid body and an
\* unknown provider task id 404 unless the store fails, and each of these
\* leaves the tasks and the events as they were
C21_RejectedChangesNothing ==
    Accept =>
        \A webhookToken \in WebhookTokens, body \in WebhookBodies :
            LET Rejection ==
                    IF webhookToken # "dev-webhook-token"
                    THEN Reply(401, <<"Invalid webhook token">>)
                    ELSE IF body \notin ValidWebhookBodies
                    THEN Reply(400, <<"providerTaskId and valid status are required">>)
                    ELSE IF \A i \in DOMAIN tasks :
                                tasks[i].providerTaskId # body.providerTaskId.value
                    THEN Reply(404, <<"Task not found">>)
                    ELSE NoReply
            IN  /\ Rejection # NoReply =>
                    /\ ENABLED ( /\ PostTasksWebhookProvider(webhookToken, body)
                                 /\ response' = Rejection )
                    /\ ~ENABLED ( /\ PostTasksWebhookProvider(webhookToken, body)
                                  /\ response' # InternalError
                                  /\ response' # Rejection )
                    /\ ~ENABLED ( /\ PostTasksWebhookProvider(webhookToken, body)
                                  /\ (tasks' # tasks \/ events' # events) )
                /\ ~ENABLED ( /\ PostTasksWebhookProvider(webhookToken, body)
                              /\ response'.statusCode \in {400, 401, 404}
                              /\ (tasks' # tasks \/ events' # events) )

\* an accepted webhook update sets the status of the tasks with the provider
\* task id and leaves every other task as it was
C21_AcceptedChangesOnlyItsTask ==
    Accept =>
        \A webhookToken \in WebhookTokens, body \in WebhookBodies :
            ~ENABLED ( /\ PostTasksWebhookProvider(webhookToken, body)
                       /\ response'.statusCode = 200
                       /\ ~( /\ DOMAIN tasks' = DOMAIN tasks
                             /\ \A i \in DOMAIN tasks :
                                    IF tasks[i].providerTaskId = body.providerTaskId.value
                                    THEN tasks'[i] = [tasks[i] EXCEPT !.status = body.status]
                                    ELSE tasks'[i] = tasks[i] ) )

\* C21: a webhook status update rejected for its token (401), its body (400)
\* or an unknown provider task id (404) changes no task and writes no audit
\* event, and an accepted update changes only the task with that provider
\* task id.
C21_WebhookRejections == C21_RejectedChangesNothing /\ C21_AcceptedChangesOnlyItsTask

C21_Witness ==
    /\ Len(tasks) = 2
    /\ tasks[1].status = "completed"
    /\ tasks[2].status = "queued"
    /\ Len(events) = 3
    /\ events[3].eventType = "task.status_changed"
    /\ response = Reply(404, <<"Task not found">>)

\* every stored task has one of the four statuses
C38_StatusValid ==
    \A i \in DOMAIN tasks : tasks[i].status \in {"queued", "in_progress", "completed", "failed"}

\* a step leaves a task that is completed or failed completed or failed
C38_FinishedStays ==
    \A i \in DOMAIN tasks :
        tasks[i].status \in {"completed", "failed"} =>
            tasks'[i].status \in {"completed", "failed"}

\* C38: the status of a task is always one of queued, in_progress,
\* completed and failed, and no accepted webhook update returns a task that
\* is completed or failed to queued or in_progress.
C38_FinishedTaskStaysFinished == []C38_StatusValid /\ [][C38_FinishedStays]_vars

\* the first half alone
C38_StatusAlwaysValid == []C38_StatusValid

\* a task is in progress whose completion is in the log
C38_Reopened ==
    \E i \in DOMAIN tasks :
        /\ tasks[i].status = "in_progress"
        /\ \E j \in DOMAIN events :
               /\ events[j].eventType = "task.status_changed"
               /\ events[j].payload.providerTaskId = tasks[i].providerTaskId
               /\ events[j].payload.status = "completed"

\* ------------------------------------------------------------ task provider claims
\* createTask has settled
C35_Settled == requests # <<>> /\ requests[1].pc = "done"

\* the six places of a payload an id is looked for in, in order
C35_Places(payload) ==
    IF payload.type # "object" THEN <<>>
    ELSE <<payload.id, payload.bountyId, payload.taskId>>
         \o (IF payload.data.type = "object"
             THEN <<payload.data.id, payload.data.bountyId, payload.data.taskId>>
             ELSE <<>>)

\* the places that hold a string or a number
C35_Ids(payload) ==
    {i \in DOMAIN C35_Places(payload) :
        C35_Places(payload)[i].type \in {"string", "number"}}

\* an id as a string
C35_IdText(value) == IF value.type = "string" THEN value.value ELSE digits(value.value)

\* the first place that holds a string or a number
C35_FirstId(payload) ==
    C35_IdText(C35_Places(payload)[CHOOSE i \in C35_Ids(payload) :
                                       \A j \in C35_Ids(payload) : i <= j])

\* what holds of a settled call whatever the body: the timer is not armed,
\* a call whose signal is aborted and a call without a success status have
\* rejected, and a resolved call carries the first id of the body
C35_SettledCall ==
    /\ requests[1].timer # "armed"
    /\ requests[1].outcome \in {"resolved", "rejected"}
    /\ requests[1].aborted => requests[1].outcome = "rejected"
    /\ ~requests[1].ok => requests[1].outcome = "rejected"
    /\ requests[1].outcome = "resolved" =>
           /\ C35_Ids(requests[1].payload) # {}
           /\ requests[1].providerTaskId = C35_FirstId(requests[1].payload)
           /\ requests[1].providerTaskId # <<>>

\* the call has rejected for a missing task id
C35_RejectedForMissingId ==
    /\ requests[1].outcome = "rejected"
    /\ requests[1].error = <<"RentAHuman API response missing task id">>

\* a settled call has rejected for a missing id only if the body holds no
\* string or number in the six places or the first of them is the empty
\* string
C35_Outcome ==
    C35_Settled =>
        /\ C35_SettledCall
        /\ C35_RejectedForMissingId =>
               \/ C35_Ids(requests[1].payload) = {}
               \/ C35_FirstId(requests[1].payload) = <<>>

\* a settled call has rejected for a missing id only if none of the six
\* places holds an id
C35_OutcomeAsStated ==
    C35_Settled =>
        /\ C35_SettledCall
        /\ C35_RejectedForMissingId =>
               \A i \in C35_Ids(requests[1].payload) :
                   C35_IdText(C35_Places(requests[1].payload)[i]) = <<>>

\* a call made settles
C35_Completes == (requests # <<>>) ~> C35_Settled

C35_WitnessTimeout ==
    /\ C35_Settled
    /\ requests[1].timer = "fired"
    /\ ~requests[1].ok
    /\ requests[1].outcome = "rejected"
    /\ requests[1].error = <<"AbortError">>

\* a call has rejected for a missing id although the body holds a bountyId
C35_WitnessEmptyFirst ==
    /\ C35_Settled
    /\ C35_RejectedForMissingId
    /\ requests[1].payload.type = "object"
    /\ requests[1].payload.id = JsString(<<>>)
    /\ requests[1].payload.bountyId = JsString(<<"b", "1">>)

\* ------------------------------------------------------------ evidence claims
\* the API keys that pass requireRole of POST /tasks/:taskId/evidence
CaptureKeys ==
    {apiKey \in EvidenceApiKeys : requireRole({"admin", "operator"}, apiKey) = NoReply}

\* the evidence bodies that supply no checksum: none, or a blank one
BodiesWithoutChecksum ==
    { body \in EvidenceBodies :
        body.checksum.type = "string" => body.checksum.value \in {<<>>, <<" ">>} }

\* the capture timestamp of a request: the capturedAt text of the body, or
\* the server's time in ISO spelling when the body has none
C22_CapturedAt(body, now) ==
    IF body.capturedAt.type = "string"
    THEN body.capturedAt.value
    ELSE IF now = 1 THEN <<"2026-01-01T00:00:00.000Z">>
                    ELSE <<"2026-01-02T00:00:00.000Z">>

\* C22: a capture that supplies no checksum stores, whatever the task, the
\* caller and the records and events stored before, the hash of its media
\* reference (without surrounding blanks), "|" and its capture timestamp.
C22_ChecksumPureFunction ==
    Accept =>
        \A apiKey \in EvidenceApiKeys, taskId \in TaskIdParams,
           body \in BodiesWithoutChecksum, now \in Instants :
            ~ENABLED ( /\ PostTaskEvidence(apiKey, taskId, body, now)
                       /\ evidence' # evidence
                       /\ evidence'[Len(evidence')].checksum
                              # trim(body.mediaUrl.value) \o <<"|">>
                                    \o C22_CapturedAt(body, now) )

C22_Witness ==
    /\ Len(evidence) = 2
    /\ evidence[1].taskId # evidence[2].taskId
    /\ evidence[1].checksum = <<"a", "|", "2026-01-01T00:00:00Z">>
    /\ evidence[2].checksum = <<"a", "|", "2026-01-01T00:00:00Z">>
    /\ \E i, j \in DOMAIN events :
           /\ events[i].eventType = "evidence.recorded"
           /\ events[j].eventType = "evidence.recorded"
           /\ events[i].payload.actorUserId # events[j].payload.actorUserId

\* the API keys that pass requireRole of GET /tasks/:taskId/evidence
ListKeys ==
    { apiKey \in EvidenceApiKeys :
        requireRole({"admin", "operator", "reviewer"}, apiKey) = NoReply }

Reverse(s) == [i \in 1..Len(s) |-> s[Len(s) + 1 - i]]

\* the records captured for a task, the one captured last first
C23_CapturedFor(taskId) ==
    Reverse(SelectSeq(evidence, LAMBDA record : record.taskId = taskId))

\* listing the evidence of a task returns the records captured for it, each
\* once, from the one created last to the one created first
C23_ListedNewestFirst ==
    Accept =>
        \A apiKey \in ListKeys, taskId \in DOMAIN tasks :
            /\ ENABLED GetTaskEvidence(apiKey, taskId)
            /\ ~ENABLED ( /\ GetTaskEvidence(apiKey, taskId)
                          /\ response' # EvidenceReply(C23_CapturedFor(taskId)) )

\* a step leaves every evidence record as it is and at most appends records
C23_AppendOnlyStep ==
    /\ Len(evidence') >= Len(evidence)
    /\ SubSeq(evidence', 1, Len(evidence)) = evidence

\* C23: evidence is append-only, and listing the evidence of a task returns
\* exactly the records captured for that task, each once, newest first, and
\* no record of another task.
C23_AppendOnlyNewestFirst == [](C23_ListedNewestFirst) /\ [][C23_AppendOnlyStep]_vars

C23_Witness ==
    /\ "evidence" \in DOMAIN response
    /\ Len(response.evidence) = 2
    /\ response.evidence[1].id = 2
    /\ response.evidence[2].id = 1
    /\ Len(tasks) = 2

\* ------------------------------------------------------------ access claims
\* the role an API key stands for: the role of its user, none for a missing
\* or unknown key
C25_Role(apiKey) ==
    CASE apiKey = "admin-key" -> "admin"
      [] apiKey = "operator-key" -> "operator"
      [] apiKey = "reviewer-key" -> "reviewer"
      [] OTHER -> "none"

\* a request on a route for the permitted roles: with a missing or unknown
\* key its only outcome is 401, with a role that is not permitted 403, and
\* either changes no table and writes no event; with a permitted role it is
\* answered neither 401 nor 403
C25_Gated(Route(_), permitted) ==
    \A apiKey \in ApiKeys :
        IF C25_Role(apiKey) \in permitted
        THEN ~ENABLED (Route(apiKey) /\ response'.statusCode \in {401, 403})
        ELSE /\ ENABLED Route(apiKey)
             /\ ~ENABLED ( /\ Route(apiKey)
                           /\ ~( /\ response'.statusCode
                                        = IF C25_Role(apiKey) = "none" THEN 401 ELSE 403
                                 /\ UNCHANGED <<opportunities, offers, items, positions,
                                                checklists, policyRules, tasks, evidence,
                                                valuations, call, events>> ) )

\* C25: a request with a missing or unknown API key (401) or with a role the
\* route does not permit (403) changes no state and writes no audit event:
\* only admin upserts policy rules, only admin or reviewer approves or rejects
\* an offer, only admin or operator drafts or sends one.
C25_RoleGates ==
    Accept =>
        /\ \A payload \in AccessRuleInputs :
               C25_Gated(LAMBDA apiKey : PostAdminPolicyRules(apiKey, payload), {"admin"})
        /\ \A offerId \in OfferIdParams :
               /\ C25_Gated(LAMBDA apiKey : PostOffersApprove(apiKey, offerId),
                            {"admin", "reviewer"})
               /\ C25_Gated(LAMBDA apiKey : PostOffersReject(apiKey, offerId),
                            {"admin", "reviewer"})
               /\ C25_Gated(LAMBDA apiKey : PostOffersSend(apiKey, offerId),
                            {"admin", "operator"})
        /\ \A opportunityId \in OpportunityIdParams, offerTerms \in OfferTermsParams :
               C25_Gated(LAMBDA apiKey : PostOffersDraft(apiKey, opportunityId, offerTerms),
                         {"admin", "operator"})

C25_Witness ==
    /\ response = Reply(403, <<"Insufficient role">>)
    /\ Len(offers) = 1
    /\ offers[1].status = "approved"
    /\ policyRules # {}

\* ------------------------------------------------------------ scoring claims
\* min(max(limit, 1), 50) for the limit of a ranking request, 10 when the
\* request names none
C26_MaxLength(limit) ==
    IF limit.type # "number" THEN 10
    ELSE IF limit.finite
    THEN (IF limit.value < 1 THEN 1 ELSE IF limit.value > 50 THEN 50 ELSE limit.value)
    ELSE IF limit = Infinity THEN 50 ELSE 1

\* C26: a ranking is non-increasing in trade score, holds each opportunity
\* at most once and only opportunities of the candidate list, and is no
\* longer than min(max(limit, 1), 50).
C26_RankingSortedAndBounded ==
    call.done /\ call.input.operation = "rank" =>
        /\ \A i \in 1..(Len(call.result) - 1) :
               call.result[i].tradeScore >= call.result[i + 1].tradeScore
        /\ \A i, j \in 1..Len(call.result) :
               i # j => call.result[i].opportunityId # call.result[j].opportunityId
        /\ \A i \in 1..Len(call.result) :
               \E j \in 1..Len(call.input.candidates) :
                   /\ call.input.candidates[j].opportunityId
                          = call.result[i].opportunityId
                   /\ call.input.candidates[j].targetValueUsd
                          = call.result[i].targetValueUsd
        /\ Len(call.result) <= C26_MaxLength(call.input.limit)

C26_Witness ==
    /\ call.done
    /\ call.input.operation = "rank"
    /\ Len(call.input.candidates) = 52
    /\ call.input.limit = JsNumber(200)
    /\ Len(call.result) = 50
    /\ call.result[1].opportunityId # 1
    /\ call.result[1].tradeScore > call.result[50].tradeScore

\* ------------------------------------------------------------ rank route claims
\* a rank request with a limit from 1 to 50 has been answered
C39_Ranked ==
    /\ call.done
    /\ call.input.operation = "rankRoute"
    /\ call.input.limit.type = "number"
    /\ call.input.limit.value \in 1..50

\* the eligible rows of the table of the request
C39_Eligible ==
    {i \in DOMAIN call.input.table :
        call.input.table[i].status \in {"sourcing", "screened"}}

\* the trade score of row i
C39_TradeScore(i) ==
    computeTradeScore(buildScoreComponents(call.input.table[i].candidate,
                                           call.input.currentItemValueUsd))

\* the rows returned
C39_Returned == {call.result[k].opportunityId : k \in DOMAIN call.result}

\* C39: the ranking returned for a limit L from 1 to 50 holds the L
\* highest-scoring of all eligible opportunities (all of them when there are
\* fewer): no eligible opportunity left out has a strictly higher trade
\* score than a returned one.
C39_TopOfAllEligible ==
    C39_Ranked =>
        /\ Len(call.result) = Min(call.input.limit.value, Cardinality(C39_Eligible))
        /\ \A i \in C39_Eligible \ C39_Returned :
               \A k \in DOMAIN call.result :
                   C39_TradeScore(i) <= call.result[k].tradeScore

\* the ranking returned is the top of the rows listScoringCandidates read
C39_TopOfRowsRead ==
    C39_Ranked =>
        LET read == {i \in C39_Eligible :
                        Cardinality({j \in C39_Eligible : j > i})
                            < call.input.limit.value}
        IN  /\ C39_Returned = read
            /\ \A k \in DOMAIN call.result :
                   call.result[k].tradeScore = C39_TradeScore(call.result[k].opportunityId)

\* a ranking of one row has been returned and an older eligible row scores
\* higher
C39_BetterLeftOut ==
    /\ C39_Ranked
    /\ Len(call.result) = 1
    /\ \E i \in C39_Eligible : C39_TradeScore(i) > call.result[1].tradeScore

\* ------------------------------------------------------------ simulation claims
\* the generator has been seeded
C40_Seeded ==
    /\ call.input.operation = "simulate"
    /\ call.result.pc \in {"loop", "returned"}

\* the states of the generator so far: after seeding and after every draw
C40_States ==
    {createRng(call.input.seed)}
        \cup UNION { {call.result.scenarios[k].draws[1], call.result.scenarios[k].draws[2]} :
                       k \in DOMAIN call.result.scenarios }

\* C40: for every integer seed the state of the generator is within
\* 1..2147483646 after seeding and after every draw, so that every draw is
\* in [0,1), every offerQuality in [0,1], every closeProbability in
\* [0.35, 0.90] and every expectedValueUsd at least 0.01.
C40_GeneratorInRange ==
    C40_Seeded =>
        /\ \A state \in C40_States : state \in 1..2147483646
        /\ \A state \in C40_States \ {createRng(call.input.seed)} :
               0 <= state - 1 /\ state - 1 < 2147483646
        /\ \A k \in DOMAIN call.result.scenarios :
               /\ call.result.scenarios[k].offerQuality \in 0..10000
               /\ call.result.scenarios[k].closeProbability \in 3500..9000
               /\ call.result.scenarios[k].expectedValueUsd >= 1

\* the ranges of what a scenario reports, without those of the generator
C40_ScenarioInRange ==
    C40_Seeded =>
        \A k \in DOMAIN call.result.scenarios :
            /\ call.result.scenarios[k].offerQuality \in 0..10000
            /\ call.result.scenarios[k].closeProbability \in 3500..9000
            /\ call.result.scenarios[k].expectedValueUsd >= 1

\* the generator is in state 0 and has drawn -1/2147483646
C40_StuckAtZero ==
    /\ C40_Seeded
    /\ call.result.state = 0
    /\ call.result.scenarios # <<>>

\* ------------------------------------------------------------ KPI claims
\* the metrics computed by the call that has just returned
MetricsComputed == call.done /\ call.input.operation = "metrics"

\* the estimated value, in cents, of the items of the positions from the
\* i-th on that are in a status counted for the current value
RECURSIVE C27_CurrentValue(_)
C27_CurrentValue(i) ==
    IF i > Len(positions) THEN 0
    ELSE (IF /\ positions[i].currentStatus \notin {"failed", "disputed"}
             /\ ~isNull(items[positions[i].itemId].estValueUsd)
          THEN items[positions[i].itemId].estValueUsd ELSE 0)
         + C27_CurrentValue(i + 1)

\* the acquisition value, in cents, of the positions from the i-th on
RECURSIVE C27_AcquisitionValue(_)
C27_AcquisitionValue(i) ==
    IF i > Len(positions) THEN 0
    ELSE (IF isNull(positions[i].acquisitionValueUsd)
          THEN 0 ELSE positions[i].acquisitionValueUsd)
         + C27_AcquisitionValue(i + 1)

\* C27: the metrics never divide by zero: for a seed cost of zero or less
\* valueMultiple is the current value divided by 1 (a value of c cents is
\* c * 100 ten-thousandths of a dollar), closeRate is 0 when there is no
\* offer, and fraudLossPct is 0 when the acquisition values of all positions
\* sum to 0.
C27_ZeroSafe ==
    MetricsComputed =>
        /\ call.input.seedCostUsd <= 0 =>
               call.result.valueMultiple = C27_CurrentValue(1) * 100
        /\ offers = <<>> => call.result.closeRate = 0
        /\ C27_AcquisitionValue(1) = 0 => call.result.fraudLossPct = 0

\* metrics computed for a negative seed cost over a portfolio with value
C27_Witness ==
    /\ MetricsComputed
    /\ call.input.seedCostUsd < 0
    /\ call.result.valueMultiple > 0
    /\ offers = <<>>

\* metrics computed with no offer and no acquisition value
C27_WitnessNoDenominators ==
    /\ MetricsComputed
    /\ offers = <<>>
    /\ positions # <<>>
    /\ C27_AcquisitionValue(1) = 0

\* the offers currently sent
C28_Sent == {i \in DOMAIN offers : offers[i].status = "sent"}

\* C28: after any sequence of task creations and accepted webhook updates
\* activeTasks is the number of tasks whose status is queued or in_progress,
\* and after any sequence of offer transitions closeRate is the number of
\* offers currently sent divided by the number of offers, to the nearest
\* ten-thousandth.
C28_MetricsFollowTables ==
    MetricsComputed =>
        /\ call.result.activeTasks =
               Cardinality({i \in DOMAIN tasks :
                              tasks[i].status \in {"queued", "in_progress"}})
        /\ offers # <<>> =>
               LET difference == call.result.closeRate * Len(offers)
                                 - Cardinality(C28_Sent) * One
               IN  /\ 2 * difference <= Len(offers)
                   /\ -2 * difference <= Len(offers)

\* metrics computed with one offer of three sent and a task completed by a
\* webhook update
C28_Witness ==
    /\ MetricsComputed
    /\ Len(offers) = 3
    /\ Cardinality(C28_Sent) = 1
    /\ call.result.closeRate = 3333
    /\ \E i \in DOMAIN tasks : tasks[i].status = "completed"
    /\ call.result.activeTasks = 0

\* metrics computed with one task queued and one in progress
C28_WitnessActive ==
    /\ MetricsComputed
    /\ call.result.activeTasks = 2
    /\ \E i \in DOMAIN tasks : tasks[i].status = "in_progress"

\* ------------------------------------------------------------ trade score claims
\* the trade score computed by the call that has just returned
ScoreComputed == call.done /\ call.input.operation = "score"

\* 0.35*valueGain + 0.20*closeProb + 0.15*liquidity + 0.10*storyValue
\* - 0.10*fraudRisk - 0.10*timeCost, in millionths
C29_Formula(c) ==
    35 * c.valueGain + 20 * c.closeProb + 15 * c.liquidity + 10 * c.storyValue
      - (10 * c.fraudRisk + 10 * c.timeCost)

\* the components (0.5, 0.8, 0.7, 0.6, 0.2, 0.4)
C29_TestTuple ==
    [ valueGain |-> 5000, closeProb |-> 8000, liquidity |-> 7000,
      storyValue |-> 6000, fraudRisk |-> 2000, timeCost |-> 4000 ]

\* C29: computeTradeScore returns the weighted sum rounded to 4 decimals, a
\* ten-thousandth nearest to it, for every component tuple; for (0.5, 0.8,
\* 0.7, 0.6, 0.2, 0.4) the result is exactly 0.44.
C29_TradeScoreFormula ==
    ScoreComputed =>
        /\ 100 * call.result - C29_Formula(call.input.components) <= 50
        /\ C29_Formula(call.input.components) - 100 * call.result <= 50
        /\ call.input.components = C29_TestTuple => call.result = 4400

\* the score of the test tuple has been computed
C29_Witness ==
    /\ ScoreComputed
    /\ call.input.components = C29_TestTuple
    /\ call.result = 4400

\* a score has been computed from a sum with more than four decimals that
\* rounds upwards
C29_WitnessRoundsUp ==
    /\ ScoreComputed
    /\ C29_Formula(call.input.components) % 100 > 50

\* ------------------------------------------------------------ estimate claims
\* the valuation computed by the call that has just returned
ValuationComputed ==
    call.done /\ call.input.operation = "valuation" /\ ~call.result.thrown

\* the valid comps of the input: the positive prices, in mills
C31_ValidComps(input) ==
    LET kept == SelectSeq(input.comps, LAMBDA comp : comp.finite /\ comp.value > 0)
    IN  [i \in DOMAIN kept |-> kept[i].value]

\* the k-th smallest of the values: fewer than k values lie below it and at
\* least k are not above it
C31_Kth(values, k) ==
    CHOOSE v \in {values[i] : i \in DOMAIN values} :
        /\ Cardinality({i \in DOMAIN values : values[i] < v}) < k
        /\ Cardinality({i \in DOMAIN values : values[i] <= v}) >= k

\* twice the median: the middle value of an odd count, the mean of the two
\* middle values of an even count
C31_TwiceCompMedian(values) ==
    IF Len(values) % 2 = 1
    THEN 2 * C31_Kth(values, (Len(values) + 1) \div 2)
    ELSE C31_Kth(values, Len(values) \div 2) + C31_Kth(values, Len(values) \div 2 + 1)

\* the input has a positive base value
C31_HasBase(input) ==
    input.baseValueUsd.type = "number" /\ input.baseValueUsd.value > 0

\* the estimated value of the claim, in two-hundredths of a mill: 0.35*base +
\* 0.65*compMedian with both, the comp median with comps only, the base with
\* a base only
C31_Estimate(input) ==
    LET comps == C31_ValidComps(input)
    IN  IF C31_HasBase(input) /\ Len(comps) > 0
        THEN 70 * input.baseValueUsd.value + 65 * C31_TwiceCompMedian(comps)
        ELSE IF Len(comps) > 0 THEN 100 * C31_TwiceCompMedian(comps)
        ELSE 200 * input.baseValueUsd.value

\* C31: for every valid valuation input the estimated value is 0.35*base +
\* 0.65*compMedian when a positive base and a valid comp exist, the comp
\* median with comps only and the base with a base only, to the nearest
\* cent; compMedian is the middle element of the sorted valid comps for an
\* odd count and the mean of the two middle elements for an even count.
C31_EstimatedValue ==
    ValuationComputed =>
        LET difference == 2000 * call.result.value.estimatedValueUsd
                          - C31_Estimate(call.input.input)
        IN  difference <= 1000 /\ -difference <= 1000

\* a value has been estimated from a base and an even number of unlike comps
C31_Witness ==
    /\ ValuationComputed
    /\ C31_HasBase(call.input.input)
    /\ Len(C31_ValidComps(call.input.input)) = 4
    /\ call.result.value.estimatedValueUsd = 8950

\* values have been estimated from comps only and from a base only
C31_WitnessCompsOnly ==
    /\ ValuationComputed
    /\ ~C31_HasBase(call.input.input)
    /\ Len(C31_ValidComps(call.input.input)) = 3
    /\ call.result.value.estimatedValueUsd = 11000

\* ------------------------------------------------------------ valuation claims
\* the valuations of the valuation tests are recorded: 110.00 from the comps
\* 100, 120 and 110, and 141.50 with the base value 200
ValuationTestsRecorded ==
    /\ \E i \in DOMAIN valuations :
           /\ valuations[i].estimatedValueUsd = 11000
           /\ valuations[i].confidenceScore = 57
    /\ \E i \in DOMAIN valuations :
           /\ valuations[i].estimatedValueUsd = 14150
           /\ valuations[i].confidenceScore = 62

\* the bodies with a title
C30_Bodies == {body \in ValuationBodies : body.title.type = "string"}

\* the body carries a positive base value or a positive comparable price
C30_HasPositiveValue(body) ==
    \/ /\ body.baseValueUsd.type = "number"
       /\ body.baseValueUsd.finite
       /\ body.baseValueUsd.value > 0
    \/ /\ body.comps.isArray
       /\ \E i \in DOMAIN body.comps.elements :
              /\ body.comps.elements[i].type = "number"
              /\ body.comps.elements[i].finite
              /\ body.comps.elements[i].value > 0

\* the reply that refuses a request without a positive value
C30_ValidationError ==
    Reply(400, <<"Provide at least one positive comp or a positive baseValueUsd">>)

\* the valuation of the body fails: the route refuses it for want of a
\* positive value, or computeValuation throws on what the route hands it
C30_Fails(body) ==
    IF parseValuationInput(body).valid
    THEN computeValuationThrows(parseValuationInput(body).value)
    ELSE TRUE

\* the valuation fails for exactly those of the bodies given that carry no
\* positive value
C30_FailsExactly(bodies) ==
    \A body \in bodies : C30_Fails(body) <=> ~C30_HasPositiveValue(body)

\* a request answered with a failed valuation writes no item, no valuation
\* record and no event
C30_FailureWritesNothing ==
    response' \in {C30_ValidationError, ValuationError} =>
        UNCHANGED <<items, valuations, events>>

\* C30: a valuation fails exactly when there is neither a positive base value
\* nor any positive comparable price; a failed valuation is answered with a
\* validation error, never with the error computeValuation throws, and no
\* item, valuation record or valuation.recorded event is written.
C30_FailsExactlyWithoutValue ==
    /\ [](C30_FailsExactly(C30_Bodies) /\ response # ValuationError)
    /\ [][C30_FailureWritesNothing]_vars

\* the same for the bodies whose numbers are finite and whose positive comps
\* are of half a cent or more
C30_FailsExactlyForWholeCents ==
    C30_FailsExactly(
        { body \in C30_Bodies :
            /\ body.baseValueUsd.type = "number" => body.baseValueUsd.finite
            /\ \A i \in DOMAIN body.comps.elements :
                   /\ body.comps.elements[i].finite
                   /\ body.comps.elements[i].value \notin 1..4 })

\* a request is answered with the error computeValuation throws
C30_ThrownErrorAnswered == response = ValuationError

\* the failed valuations write nothing
C30_FailuresWriteNothing == [][C30_FailureWritesNothing]_vars

\* ------------------------------------------------------------ valuation race claims
\* the item write of a call is persisted: an item carries the call's value
C34_ItemPersisted(r) ==
    \E i \in DOMAIN items : items[i].estValueUsd = requests[r].input.estimatedValueUsd

\* the valuation of a call is persisted
C34_ValuationPersisted(r) ==
    \E i \in DOMAIN valuations :
        valuations[i].estimatedValueUsd = requests[r].input.estimatedValueUsd

\* a call that has rejected has left neither of its writes persisted
C34_FailedCallLeavesNothing ==
    \A r \in DOMAIN requests :
        requests[r].outcome = "rejected" =>
            ~C34_ItemPersisted(r) /\ ~C34_ValuationPersisted(r)

\* the COMMIT or ROLLBACK of a call ends a transaction that holds writes of
\* this call only
C34_OwnWritesOnly ==
    \A r \in DOMAIN requests :
        /\ requests[r].pc \in {"COMMIT", "ROLLBACK"}
        /\ requests[r].client # 0
        /\ requests'[r].pc = "done"
        => \A k \in DOMAIN pool.clients[requests[r].client].pending :
               pool.clients[requests[r].client].pending[k].input = requests[r].input

\* C34: recordValuation is all-or-nothing when another call uses the pool
\* concurrently: a call whose second write fails leaves no item write
\* persisted, and its COMMIT or ROLLBACK never commits or rolls back writes
\* of the other call.
C34_AllOrNothing == []C34_FailedCallLeavesNothing /\ [][C34_OwnWritesOnly]_vars

\* the first half alone, and the second half alone
C34_NothingLeft == []C34_FailedCallLeavesNothing
C34_NoForeignWrites == [][C34_OwnWritesOnly]_vars

\* a call has rejected and the item it inserted is persisted
C34_ItemLeft ==
    \E r \in DOMAIN requests :
        /\ requests[r].outcome = "rejected"
        /\ insertsItem(requests[r].input)
        /\ C34_ItemPersisted(r)
        /\ ~C34_ValuationPersisted(r)

\* a call has resolved and none of its writes is persisted, with no
\* transaction left open that holds them
C34_ResolvedWithoutWrites ==
    \E r \in DOMAIN requests :
        /\ requests[r].outcome = "resolved"
        /\ ~C34_ItemPersisted(r)
        /\ ~C34_ValuationPersisted(r)
        /\ \A c \in DOMAIN pool.clients : pool.clients[c].pending = <<>>

====
